---- MODULE Spec2Model ----
(***************************************************************************)
(* A model of the zen-digital-journal backend (Flask + Flask-SQLAlchemy). *)
(*                                                                         *)
(* Spec models the journal and auth blueprints over the persisted user    *)
(* and journal tables: one request handler is one action.  The ORM         *)
(* session is request scoped: what a handler assigns to a loaded row is    *)
(* written to the tables only by db.session.commit(); a handler that       *)
(* returns without committing (or calls rollback) leaves the tables as     *)
(* they were.                                                              *)
(*                                                                         *)
(* Time is the UTC calendar day of datetime.utcnow(); a request runs       *)
(* within one day.                                                         *)
(***************************************************************************)
EXTENDS Integers, Sequences, FiniteSets, TLC

\* ---------------------------------------------------------------- bounds
MaxDay == 4
MaxEntries == 3

\* ------------------------------------------------------------- constants
NoDate == -1                       \* a NULL datetime column
Anonymous == 0                     \* no user id in the session cookie
Usernames == {"ann", "bob"}
Emails == {"ann@x.io", "bob@x.io"}

VARIABLES
    today,          \* the calendar day datetime.utcnow() falls on
    users,          \* table user: sequence of rows, id = index
    journal,        \* table journal: sequence of rows, id = index
    current_user,   \* flask-login: user id of the client's session, or Anonymous
    resp,           \* the response of the last request
    hist_max,       \* per user: the largest current_streak the row has ever held
    ai_pc,          \* the AI call in progress: idle, chat, analysis, or done
    ai_attempt,     \* the loop variable attempt of the call in progress
    ai_outcomes,    \* what the external service answered to each attempt so far
    ai_result,      \* what the call returned or raised (and analyze answered)
    conversation,   \* table conversation: sequence of rows, id = index
    sent,           \* the contents the last request handed to the chat model
    fn_pc,          \* a function applied on its own: idle, called, returned
    fn_in,          \* its arguments
    fn_out,         \* its return value
    requests        \* requests served side by side: per request its position
                    \* and what its own ORM session has loaded

store_vars == <<today, users, journal, current_user, hist_max>>
ai_vars == <<ai_pc, ai_attempt, ai_outcomes, ai_result>>
chat_vars == <<conversation, sent>>
fn_vars == <<fn_pc, fn_in, fn_out, requests>>
vars == <<today, users, journal, current_user, resp, hist_max,
          ai_pc, ai_attempt, ai_outcomes, ai_result,
          conversation, sent, fn_pc, fn_in, fn_out, requests>>

Max(a, b) == IF a >= b THEN a ELSE b

\* ----------------------------------------------------------------- rows
\* models.User: the streak columns and their defaults
NewUser(username, email, now) ==
    [username |-> username, email |-> email,
     last_activity_date |-> now, current_streak |-> 0, longest_streak |-> 0]

\* models.Journal; created_at defaults to utcnow, deleted_at to NULL
NewJournal(user_id, prompt, answer, modality, now) ==
    [user_id |-> user_id, prompt |-> prompt, answer |-> answer,
     created_at |-> now, deleted_at |-> NoDate]

Response(op, status, error) == [op |-> op, status |-> status, error |-> error, valid |-> FALSE]

\* decorators / flask-login: a protected view is served only to a logged-in session
is_authenticated == current_user # Anonymous

\* a session whose flushed rows stay although the request did not commit
session_end_flushed(persisted, in_session, committed) == in_session

\* ------------------------------------------------------- the ORM session
\* What the tables hold after the request: the rows as the handler left them in
\* the session if it committed, the rows as they were otherwise.
session_end(persisted, in_session, committed) ==
    IF committed THEN in_session ELSE persisted

\* ------------------------------------------------------------ streak
\* journal.update_user_streak, lines 53-57: the count of today's live entries
today_entries(rows, user_id, now) ==
    Cardinality({i \in DOMAIN rows :
                    /\ rows[i].user_id = user_id
                    /\ rows[i].created_at >= now
                    /\ rows[i].deleted_at = NoDate})

DuplicateEntry == "Entry already created today"

\* update_user_streak with the reset branch lost: any gap continues the streak
update_user_streak_noreset(user, n_today, now) ==
    IF n_today > 0 \/ now - user.last_activity_date = 0
    THEN [error |-> TRUE, user |-> user]
    ELSE [error |-> FALSE,
          user |-> [user EXCEPT !.current_streak = user.current_streak + 1,
                                !.longest_streak = Max(user.current_streak + 1, user.longest_streak),
                                !.last_activity_date = now]]

\* update_user_streak with the outer test inverted: a row with an activity date
\* is handled as a first entry
update_user_streak_inverted(user, n_today, now) ==
    [error |-> FALSE,
     user |-> [user EXCEPT !.current_streak = 1,
                           !.longest_streak = Max(1, user.longest_streak),
                           !.last_activity_date = now]]

\* update_user_streak taking the maximum before it advances current_streak
update_user_streak_stale(user, n_today, now) ==
    IF n_today > 0 \/ now - user.last_activity_date = 0
    THEN [error |-> TRUE, user |-> user]
    ELSE [error |-> FALSE,
          user |-> [user EXCEPT !.current_streak =
                                    IF now - user.last_activity_date = 1
                                    THEN user.current_streak + 1 ELSE 1,
                                !.longest_streak = Max(user.current_streak, user.longest_streak),
                                !.last_activity_date = now]]

\* journal.update_user_streak: the error (or none) and the user row as assigned
update_user_streak(user, n_today, now) ==
    IF user.last_activity_date # NoDate
    THEN IF n_today > 0
         THEN [error |-> TRUE, user |-> user]
         ELSE LET days_diff == now - user.last_activity_date IN
              IF days_diff = 0
              THEN [error |-> TRUE, user |-> user]
              ELSE LET streak == IF days_diff = 1 THEN user.current_streak + 1 ELSE 1 IN
                   [error |-> FALSE,
                    user |-> [user EXCEPT !.current_streak = streak,
                                          !.longest_streak = Max(streak, user.longest_streak),
                                          !.last_activity_date = now]]
    ELSE [error |-> FALSE,
          user |-> [user EXCEPT !.current_streak = 1,
                                !.longest_streak = Max(1, user.longest_streak),
                                !.last_activity_date = now]]

\* ------------------------------------------------------------- history
\* the largest current_streak each user row has held, extended by the new rows
hist_after(rows) ==
    [i \in DOMAIN rows |->
        IF i \in DOMAIN hist_max THEN Max(hist_max[i], rows[i].current_streak)
        ELSE rows[i].current_streak]

\* no AI call has been made
\* what str(e).lower() of a raised error contains
ErrorText(quota, limit, safety) == [quota |-> quota, limit |-> limit, safety |-> safety]
ErrorTexts ==
    {ErrorText(FALSE, FALSE, FALSE), ErrorText(TRUE, FALSE, FALSE),
     ErrorText(FALSE, TRUE, FALSE), ErrorText(FALSE, FALSE, TRUE),
     ErrorText(TRUE, FALSE, TRUE)}
PlainError == ErrorText(FALSE, FALSE, FALSE)

\* the outcome of the last AI call: how the client ended (return, raise; canned
\* when the handler answered without it), its text or error, and the results
NoAnalysis == [patterns |-> << >>, insights |-> << >>, suggested_prompts |-> << >>]
NoResult == [kind |-> "none", text |-> "", error |-> PlainError, analysis |-> NoAnalysis]
AIIdle ==
    /\ ai_pc = "idle"
    /\ ai_attempt = 0
    /\ ai_outcomes = << >>
    /\ ai_result = NoResult

\* no conversation stored, nothing handed to the chat model
NoChat ==
    /\ conversation = << >>
    /\ sent = << >>

\* no function is being applied on its own
FnIdle ==
    /\ fn_pc = "idle"
    /\ fn_in = << >>
    /\ fn_out = << >>
    /\ requests = << >>

Init ==
    /\ today = 0
    /\ users = << >>
    /\ journal = << >>
    /\ current_user = Anonymous
    /\ resp = Response("none", 0, "")
    /\ hist_max = << >>
    /\ AIIdle
    /\ NoChat
    /\ FnIdle

\* the clock: utcnow() passes midnight
Tick ==
    /\ today < MaxDay
    /\ today' = today + 1
    /\ resp' = Response("none", 0, "")
    /\ UNCHANGED <<users, journal, current_user, hist_max>>
    /\ UNCHANGED <<ai_vars, chat_vars, fn_vars>>

\* ------------------------------------------------------------------ auth
\* auth.validate_registration_data: the form is acceptable
validate_registration_data(username, email, password_len) ==
    /\ Len(username) >= 3
    /\ email \in Emails
    /\ password_len >= 8

\* the registration forms tried: the account (tried again, its username is
\* taken) and one form failing each validation rule
RegisterForms ==
    {<<"ann", "ann@x.io", 8>>,
     <<"al", "ann@x.io", 8>>, <<"ann", "nomail", 8>>, <<"ann", "ann@x.io", 7>>}

\* register answering 409 to a taken username only
register_unchecked_email(username, email, password_len) ==
    /\ resp' =
         IF ~validate_registration_data(username, email, password_len)
         THEN Response("register", 400, "errors")
         ELSE IF \E i \in DOMAIN users : users[i].username = username
         THEN Response("register", 409, "Username already exists")
         ELSE Response("register", 201, "")
    /\ users' = session_end(users, Append(users, NewUser(username, email, today)),
                            resp'.status = 201)
    /\ hist_max' = hist_after(users')
    /\ UNCHANGED <<today, journal, current_user>>
    /\ UNCHANGED <<ai_vars, chat_vars, fn_vars>>

\* auth.register
register(username, email, password_len) ==
    /\ resp' =
         IF ~validate_registration_data(username, email, password_len)
         THEN Response("register", 400, "errors")
         ELSE IF \E i \in DOMAIN users : users[i].username = username
         THEN Response("register", 409, "Username already exists")
         ELSE IF \E i \in DOMAIN users : users[i].email = email
         THEN Response("register", 409, "Email already exists")
         ELSE Response("register", 201, "")
    /\ users' = session_end(users, Append(users, NewUser(username, email, today)),
                            resp'.status = 201)
    /\ hist_max' = hist_after(users')
    /\ UNCHANGED <<today, journal, current_user>>
    /\ UNCHANGED <<ai_vars, chat_vars, fn_vars>>

\* auth.login, line 105: the first row whose username or email is the identifier
find_user(identifier) ==
    LET hits == {i \in DOMAIN users :
                    users[i].username = identifier \/ users[i].email = identifier}
    IN IF hits = {} THEN Anonymous ELSE CHOOSE i \in hits : \A j \in hits : i <= j

\* login committing the activity date it assigns
login_commits_always == TRUE

\* auth.login never calls db.session.commit()
login_commits == FALSE

\* login accepting any password of a known user
login_without_password(identifier, password_ok) ==
    LET uid == find_user(identifier)
        ok == identifier # "" /\ uid # Anonymous
        in_session == IF ok THEN [users EXCEPT ![uid].last_activity_date = today]
                      ELSE users
    IN /\ resp' = IF identifier = "" THEN Response("login", 400, "required")
                  ELSE IF ok THEN Response("login", 200, "")
                  ELSE Response("login", 401, "Invalid credentials")
       /\ current_user' = IF ok THEN uid ELSE current_user
       /\ users' = session_end(users, in_session, ok /\ login_commits)
       /\ hist_max' = hist_after(users')
       /\ UNCHANGED <<today, journal>>
       /\ UNCHANGED <<ai_vars, chat_vars, fn_vars>>

\* auth.login: the activity date is assigned to the loaded row and the session
\* cookie is set; check_password_hash is the input password_ok
login(identifier, password_ok) ==
    LET uid == find_user(identifier)
        ok == identifier # "" /\ uid # Anonymous /\ password_ok
        in_session == IF ok THEN [users EXCEPT ![uid].last_activity_date = today]
                      ELSE users
    IN /\ resp' = IF identifier = "" THEN Response("login", 400, "required")
                  ELSE IF ok THEN Response("login", 200, "")
                  ELSE Response("login", 401, "Invalid credentials")
       /\ current_user' = IF ok THEN uid ELSE current_user
       /\ users' = session_end(users, in_session, ok /\ login_commits)
       /\ hist_max' = hist_after(users')
       /\ UNCHANGED <<today, journal>>
       /\ UNCHANGED <<ai_vars, chat_vars, fn_vars>>

\* auth.logout behind decorators.api_login_required
logout ==
    /\ resp' = IF is_authenticated THEN Response("logout", 200, "")
               ELSE Response("logout", 401, "Authentication required")
    /\ current_user' = Anonymous
    /\ UNCHANGED <<today, users, journal, hist_max>>
    /\ UNCHANGED <<ai_vars, chat_vars, fn_vars>>

\* --------------------------------------------------------------- journal
\* the multipart form and upload of a create request; a field the handler does
\* not reach on the request's path is left at its first value
CreateRequest(prompt, modality, answer, file, ocr, db_error) ==
    [prompt |-> prompt, modality |-> modality, answer |-> answer,
     file |-> file, ocr |-> ocr, db_error |-> db_error]
CreateRequests ==
    {CreateRequest("", m, "a1", "ok", "text", FALSE) : m \in {"text", "image"}}
    \cup {CreateRequest("p1", "video", "a1", "absent", "text", FALSE)}
    \cup {CreateRequest("p1", "text", a, "absent", "text", FALSE) : a \in {"", "a1"}}
    \cup {CreateRequest("p1", "text", "a1", "absent", "text", TRUE)}
    \cup {CreateRequest("p1", "image", "", f, "text", FALSE) :
             f \in {"absent", "noname", "badext", "toobig", "empty", "ok"}}
    \cup {CreateRequest("p1", "image", "", "ok", o, FALSE) : o \in {"blank", "error"}}
    \cup {CreateRequest("p1", "image", "", "ok", "text", TRUE)}
    \cup {CreateRequest("p1", "audio", "", f, "text", FALSE) :
             f \in {"absent", "noname", "badext", "ok"}}

\* a request that asks for an entry the service supports, with no store failure
ValidCreateRequest(req) ==
    /\ req.prompt # ""
    /\ \/ req.modality = "text" /\ req.answer # ""
       \/ req.modality = "image" /\ req.file = "ok" /\ req.ocr = "text"
    /\ ~req.db_error

\* journal.validate_create_entry_data: the list of errors is not empty
validate_create_entry_data(req) ==
    req.prompt = "" \/ req.modality \notin {"text", "image", "audio"}

\* journal.create_entry, lines 126-240: what the handler answers once the streak
\* check has passed, and the answer text it stores
create_entry_result(req) ==
    IF validate_create_entry_data(req)
    THEN [status |-> 400, error |-> "errors", answer |-> ""]
    ELSE IF req.modality = "text"
    THEN IF req.answer = ""
         THEN [status |-> 400, error |-> "Answer text is required", answer |-> ""]
         ELSE IF req.db_error
         THEN [status |-> 500, error |-> "unexpected", answer |-> ""]
         ELSE [status |-> 201, error |-> "", answer |-> req.answer]
    ELSE IF req.modality = "image"
    THEN IF req.file # "ok"
         THEN [status |-> 400, error |-> "file", answer |-> ""]
         ELSE IF req.ocr = "blank"
         THEN [status |-> 400, error |-> "No readable text", answer |-> ""]
         ELSE IF req.ocr = "error"
         THEN [status |-> 500, error |-> "Failed to process the image", answer |-> ""]
         ELSE IF req.db_error
         THEN [status |-> 500, error |-> "unexpected", answer |-> ""]
         ELSE [status |-> 201, error |-> "", answer |-> "a1"]
    ELSE IF req.file # "ok"
         THEN [status |-> 400, error |-> "file", answer |-> ""]
         ELSE [status |-> 501, error |-> "Audio processing feature coming soon",
               answer |-> ""]

\* create_entry committing the session before it validates the form
create_entry_commits_early(status) == TRUE

\* create_entry committing the streak it assigned when it rejects the form
create_entry_commits_streak_first(status) == status \in {201, 400}

\* journal.create_entry, lines 216-217: the handler commits on the path that
\* stores the entry, and on no other
create_entry_commits(status) == status = 201

\* create_entry going on after update_user_streak returned its error
create_entry_rejected_never(streak) == FALSE

\* journal.create_entry, lines 122-124: the streak error ends the request
create_entry_rejected(streak) == streak.error

\* journal.create_entry behind flask-login's login_required
create_entry(req) ==
    IF ~is_authenticated
    THEN /\ resp' = Response("create_entry", 302, "login required")
         /\ UNCHANGED <<today, users, journal, current_user, hist_max>>
         /\ UNCHANGED <<ai_vars, chat_vars, fn_vars>>
    ELSE
    LET uid == current_user
        now == today
        streak == update_user_streak(users[uid], today_entries(journal, uid, now), now)
        result == create_entry_result(req)
        users_in_session == [users EXCEPT ![uid] = streak.user]
        journal_in_session ==
            IF result.status = 201
            THEN Append(journal, NewJournal(uid, req.prompt, result.answer, req.modality, now))
            ELSE journal
        rejected == create_entry_rejected(streak)
        committed == ~rejected /\ create_entry_commits(result.status)
    IN /\ Len(journal) < MaxEntries
       /\ resp' = IF rejected
                  THEN [Response("create_entry", 400, DuplicateEntry)
                            EXCEPT !.valid = ValidCreateRequest(req)]
                  ELSE [Response("create_entry", result.status, result.error)
                            EXCEPT !.valid = ValidCreateRequest(req)]
       /\ users' = session_end(users, users_in_session, committed)
       /\ journal' = session_end(journal, journal_in_session, committed)
       /\ hist_max' = hist_after(users')
       /\ UNCHANGED <<today, current_user>>
       /\ UNCHANGED <<ai_vars, chat_vars, fn_vars>>

\* the live row with this id, whoever owns it
find_entry_any_owner(entry_id, user_id) ==
    /\ entry_id \in DOMAIN journal
    /\ journal[entry_id].deleted_at = NoDate

\* journal.update_entry / delete_entry / get_single_entry: the live row of the
\* caller with this id, or none
find_entry(entry_id, user_id) ==
    /\ entry_id \in DOMAIN journal
    /\ journal[entry_id].user_id = user_id
    /\ journal[entry_id].deleted_at = NoDate

\* the JSON bodies of an update request tried; an absent field is "-"
UpdateRequest(prompt, answer, tag) == [prompt |-> prompt, answer |-> answer, tag |-> tag]
UpdateData ==
    {UpdateRequest("-", "-", "-"), UpdateRequest("p2", "-", "-"),
     UpdateRequest("", "-", "-"), UpdateRequest("-", "", "-"),
     UpdateRequest("p2", "", "-"), UpdateRequest("-", "-", "t"),
     UpdateRequest("p1", "a1", "t")}

\* update_entry flushing each field to the store as it assigns it
update_entry_commits_each_field(status) == TRUE

\* journal.update_entry, lines 428-429: the handler commits once, after every
\* field of the request has been checked
update_entry_commits(status) == status = 200

\* journal.update_entry
update_entry(entry_id, data) ==
    IF ~is_authenticated
    THEN /\ resp' = Response("update_entry", 302, "login required")
         /\ UNCHANGED <<today, users, journal, current_user, hist_max>>
         /\ sent' = << >>
         /\ UNCHANGED <<ai_vars, conversation, fn_vars>>
    ELSE
    LET no_data == data.prompt = "-" /\ data.answer = "-" /\ data.tag = "-"
        found == find_entry(entry_id, current_user)
        step1 == IF data.prompt \notin {"-", ""}
                 THEN [journal EXCEPT ![entry_id].prompt = data.prompt] ELSE journal
        step2 == IF data.answer \notin {"-", ""}
                 THEN [step1 EXCEPT ![entry_id].answer = data.answer] ELSE step1
        result == IF entry_id <= 0 THEN Response("update_entry", 400, "Invalid entry ID")
                  ELSE IF no_data THEN Response("update_entry", 400, "No data provided")
                  ELSE IF ~found THEN Response("update_entry", 404, "Entry not found or access denied")
                  ELSE IF data.prompt = "" THEN Response("update_entry", 400, "Prompt cannot be empty")
                  ELSE IF data.answer = "" THEN Response("update_entry", 400, "Answer cannot be empty")
                  ELSE Response("update_entry", 200, "")
    IN /\ resp' = result
       /\ journal' = session_end(journal, IF found THEN step2 ELSE journal,
                                 update_entry_commits(result.status))
       /\ UNCHANGED <<today, users, current_user, hist_max>>
       /\ sent' = << >>
       /\ UNCHANGED <<ai_vars, conversation, fn_vars>>

\* journal.delete_entry: the soft delete
delete_entry(entry_id) ==
    IF ~is_authenticated
    THEN /\ resp' = Response("delete_entry", 302, "login required")
         /\ UNCHANGED <<today, users, journal, current_user, hist_max>>
         /\ sent' = << >>
         /\ UNCHANGED <<ai_vars, conversation, fn_vars>>
    ELSE
    LET found == find_entry(entry_id, current_user)
        result == IF entry_id <= 0 THEN Response("delete_entry", 400, "Invalid entry ID")
                  ELSE IF ~found THEN Response("delete_entry", 404, "Entry not found or access denied")
                  ELSE Response("delete_entry", 200, "")
    IN /\ resp' = result
       /\ journal' = session_end(journal,
                                 IF found THEN [journal EXCEPT ![entry_id].deleted_at = today]
                                 ELSE journal,
                                 result.status = 200)
       /\ UNCHANGED <<today, users, current_user, hist_max>>
       /\ sent' = << >>
       /\ UNCHANGED <<ai_vars, conversation, fn_vars>>

Next ==
    \/ Tick
    \/ \E form \in RegisterForms : register(form[1], form[2], form[3])
    \/ \E identifier \in {"ann", "ann@x.io", "eve", ""}, password_ok \in BOOLEAN :
          login(identifier, password_ok)
    \/ logout
    \/ \E req \in CreateRequests : create_entry(req)
    \/ \E entry_id \in 0..MaxEntries, data \in UpdateData : update_entry(entry_id, data)
    \/ \E entry_id \in 0..MaxEntries : delete_entry(entry_id)

Spec == Init /\ [][Next]_vars

\* ------------------------------------------------- properties of Spec
\* the step is a create_entry request of the logged-in user
IsCreateStep == resp'.op = "create_entry" /\ is_authenticated

\* the rows of a user, live or soft-deleted, and the days they were created on
RowsOf(user_id) == {i \in DOMAIN journal : journal[i].user_id = user_id}
CreatedDays(user_id) == {journal[i].created_at : i \in RowsOf(user_id)}

\* the number of consecutive days of S that end on its latest day
RECURSIVE RunBack(_, _)
RunBack(S, d) == IF d \in S THEN 1 + RunBack(S, d - 1) ELSE 0
RunLength(S) ==
    IF S = {} THEN 0 ELSE RunBack(S, CHOOSE d \in S : \A e \in S : e <= d)

\* C1: a create_entry one calendar day after last_activity_date is not
\* rejected as a duplicate and, stored, sets current_streak to its previous
\* value + 1; after a longer (or negative) gap, or with no activity date, it
\* sets current_streak to 1; on the day of last_activity_date it is rejected and
\* changes no streak field.  An acceptable request is stored in the first two
\* cases.
C1_StreakRecurrence ==
    [][IsCreateStep =>
        LET old == users[current_user]
            new == users'[current_user]
            gap == today - old.last_activity_date
            first == old.last_activity_date = NoDate
        IN /\ (~first /\ gap = 0) =>
                /\ resp'.status = 400 /\ resp'.error = DuplicateEntry
                /\ new = old
           /\ (first \/ gap # 0) =>
                /\ resp'.error # DuplicateEntry
                /\ resp'.valid => resp'.status = 201
                /\ resp'.status = 201 =>
                     /\ new.current_streak =
                            IF ~first /\ gap = 1 THEN old.current_streak + 1 ELSE 1
                     /\ new.last_activity_date = today
    ]_vars

\* C1 witness: a stored entry has continued a streak
C1_Witness ==
    /\ resp.op = "create_entry" /\ resp.status = 201
    /\ users[current_user].current_streak = 2

\* C2: each user has at most one live (not soft-deleted) entry per calendar day
C2_OneLiveEntryPerDay ==
    \A i, j \in DOMAIN journal :
        (/\ i # j
         /\ journal[i].user_id = journal[j].user_id
         /\ journal[i].deleted_at = NoDate
         /\ journal[j].deleted_at = NoDate) => journal[i].created_at # journal[j].created_at

\* C2 witness: an acceptable second request on a day that has a live entry,
\* after an update and a soft delete of earlier entries
C2_Witness ==
    /\ resp.op = "create_entry" /\ resp.valid /\ resp.status = 400
    /\ \E i \in RowsOf(current_user) :
          journal[i].created_at = today /\ journal[i].deleted_at = NoDate
    /\ \E i \in RowsOf(current_user) : journal[i].deleted_at # NoDate
    /\ \E i \in RowsOf(current_user) : journal[i].prompt = "p2"

\* C3: a create_entry that fails after the streak check passed (validation,
\* missing answer, upload, OCR, audio, store failure) leaves the user and journal
\* tables as they were, and in every state a positive current_streak comes with
\* a stored entry created on the day of last_activity_date
StreakHasEntry ==
    \A u \in DOMAIN users :
        users[u].current_streak > 0 => users[u].last_activity_date \in CreatedDays(u)
C3_FailedCreateDiscarded ==
    [][/\ (IsCreateStep /\ resp'.status # 201) => (users' = users /\ journal' = journal)
       /\ StreakHasEntry'
    ]_vars

\* C3 witness: a request that passed the streak check failed in the store
C3_Witness ==
    /\ resp.op = "create_entry" /\ resp.status = 500
    /\ users[current_user].last_activity_date < today
    /\ today_entries(journal, current_user, today) = 0

C33_RejectedOnlyWithEntryToday ==
    [][IsCreateStep =>
        /\ resp'.error = DuplicateEntry => today_entries(journal, current_user, today) > 0
        /\ (resp'.valid /\ today_entries(journal, current_user, today) = 0) =>
              resp'.status = 201
    ]_vars

\* C5: longest_streak is the largest value current_streak has held, so it is
\* never below current_streak
C5_LongestIsHistoricalMax ==
    \A u \in DOMAIN users :
        /\ users[u].longest_streak = hist_max[u]
        /\ users[u].longest_streak >= users[u].current_streak

\* C5 witness: a streak of 2 was reset, the longest streak stays 2
C5_Witness ==
    \E u \in DOMAIN users :
        users[u].current_streak = 1 /\ users[u].longest_streak = 2

C38_RejectedUpdateStoresNothing ==
    [][\A entry_id \in 0..MaxEntries, data \in UpdateData :
          (update_entry(entry_id, data) /\ resp'.status # 200) => journal' = journal
    ]_vars

\* C38 witness: the empty answer was rejected for a live entry of the caller
\* whose stored prompt is not the one the request carried
C38_Witness ==
    /\ resp.op = "update_entry" /\ resp.error = "Answer cannot be empty"
    /\ \E i \in RowsOf(current_user) :
          journal[i].deleted_at = NoDate /\ journal[i].prompt = "p1"
    /\ \E i \in RowsOf(current_user) : journal[i].deleted_at # NoDate

\* ============================================================ AI clients
\* The two retry loops around the external generative-AI service.  One loop
\* iteration is one action: the service's answer to the attempt is its input.

\* the default of the parameter retries of both clients
DefaultRetries == 2

Min(a, b) == IF a <= b THEN a ELSE b

\* ------------------------------------------------------------------ chat
BlockedMessage == "I can't respond to that request. Let's try discussing something else."
RephraseMessage == "I'm having trouble forming a response. Could you try rephrasing?"
UnableMessage == "I'm currently unable to generate a response. Please try again."
HighDemandMessage == "I'm experiencing high demand right now. Please try again in a few minutes."
SafetyMessage == "I can't respond to that due to safety guidelines. Let's discuss something else."
TechnicalMessage == "I'm having technical difficulties. Please try again later."
SorryMessage == "Sorry, I encountered an issue and couldn't process your message."

\* what model.generate_content does on one attempt: it raises, or it answers
\* with a prompt-feedback block, with parts holding a text, or with no parts
ChatRaise(error) ==
    [kind |-> "raise", error |-> error, blocked |-> FALSE, parts |-> FALSE, text |-> ""]
ChatResponse(blocked, parts, text) ==
    [kind |-> "response", error |-> PlainError, blocked |-> blocked, parts |-> parts,
     text |-> text]
ChatOutcomes ==
    {ChatRaise(e) : e \in ErrorTexts}
    \cup {ChatResponse(TRUE, TRUE, "Hello."), ChatResponse(TRUE, FALSE, ""),
          ChatResponse(FALSE, TRUE, "Hello."), ChatResponse(FALSE, TRUE, " Hello. "),
          ChatResponse(FALSE, TRUE, "  "), ChatResponse(FALSE, FALSE, "")}

\* str.strip() on the texts above
strip(text) ==
    IF text = "  " THEN "" ELSE IF text = " Hello. " THEN "Hello." ELSE text

Continue == [done |-> FALSE, text |-> ""]
Return(text) == [done |-> TRUE, text |-> text]

\* call_gemini_api giving up at the first failed attempt
call_gemini_api_step_giveup(attempt, outcome, retries) ==
    IF outcome.kind = "response"
    THEN IF outcome.blocked THEN Return(BlockedMessage)
         ELSE IF outcome.parts
         THEN IF strip(outcome.text) # "" THEN Return(strip(outcome.text))
              ELSE Return(RephraseMessage)
         ELSE Return(UnableMessage)
    ELSE IF outcome.error.quota \/ outcome.error.limit THEN Return(HighDemandMessage)
         ELSE IF outcome.error.safety THEN Return(SafetyMessage)
         ELSE Return(TechnicalMessage)

\* chat.call_gemini_api, lines 88-125: one iteration of the loop
call_gemini_api_step(attempt, outcome, retries) ==
    IF outcome.kind = "response"
    THEN IF outcome.blocked THEN Return(BlockedMessage)
         ELSE IF outcome.parts
         THEN IF strip(outcome.text) # "" THEN Return(strip(outcome.text))
              ELSE Return(RephraseMessage)
         ELSE IF attempt < retries THEN Continue
         ELSE Return(UnableMessage)
    ELSE IF outcome.error.quota \/ outcome.error.limit THEN Return(HighDemandMessage)
         ELSE IF outcome.error.safety THEN Return(SafetyMessage)
         ELSE IF attempt = retries THEN Return(TechnicalMessage)
         ELSE Continue

\* chat.call_gemini_api is entered (by post_message, with the default retries)
call_gemini_api_begin ==
    /\ ai_pc \in {"idle", "chat_done", "analysis_done"}
    /\ is_authenticated
    /\ ai_pc' = "chat"
    /\ ai_attempt' = 0
    /\ ai_outcomes' = << >>
    /\ ai_result' = NoResult
    /\ resp' = Response("post_message", 0, "")
    /\ UNCHANGED <<store_vars, chat_vars, fn_vars>>

\* chat.call_gemini_api, lines 87-127: the loop for attempt in range(retries + 1)
\* and the return after it
call_gemini_api_attempt(outcome) ==
    /\ ai_pc = "chat"
    /\ LET step == call_gemini_api_step(ai_attempt, outcome, DefaultRetries)
           exhausted == ~step.done /\ ai_attempt + 1 > DefaultRetries
       IN /\ ai_outcomes' = Append(ai_outcomes, outcome)
          /\ ai_pc' = IF step.done \/ exhausted THEN "chat_done" ELSE "chat"
          /\ ai_attempt' = IF step.done \/ exhausted THEN ai_attempt ELSE ai_attempt + 1
          /\ ai_result' = IF step.done THEN [NoResult EXCEPT !.kind = "return", !.text = step.text]
                          ELSE IF exhausted
                          THEN [NoResult EXCEPT !.kind = "return", !.text = SorryMessage]
                          ELSE ai_result
    /\ UNCHANGED <<resp>>
    /\ UNCHANGED <<store_vars, chat_vars, fn_vars>>

\* -------------------------------------------------------------- analysis
\* a string is its text and its length; a slice keeps the text's name and
\* shortens the length, and the empty string has length 0
Str(text, len) == [text |-> text, len |-> len]
truncate(str, cap) == [str EXCEPT !.len = Min(str.len, cap)]
Take(seq, n) == SubSeq(seq, 1, Min(Len(seq), n))
RECURSIVE Truthy(_)
Truthy(seq) ==
    IF seq = << >> THEN << >>
    ELSE IF Head(seq).len > 0 THEN <<Head(seq)>> \o Truthy(Tail(seq))
    ELSE Truthy(Tail(seq))

\* a field of the parsed JSON object: a list of strings, another value, or absent
Field(kind, items) == [kind |-> kind, items |-> items]
Missing == Field("missing", << >>)
NotAList == Field("other", << >>)
List(items) == Field("list", items)

\* the fixed lists that stand in for an empty field, lines 167-178
DefaultPatterns ==
    <<Str("Continue journaling to identify patterns in your thoughts and experiences", 73)>>
DefaultInsights ==
    <<Str("Your journaling practice shows commitment to self-reflection and growth", 71)>>
DefaultPrompts ==
    <<Str("What did I learn about myself today?", 36),
      Str("What am I most grateful for right now?", 38),
      Str("How have I grown or changed recently?", 37)>>

\* [str(p)[:cap] for p in field[:count] if p], guarded by the isinstance test
validated_list(field, count, cap) ==
    IF field.kind = "list"
    THEN [i \in 1..Len(Truthy(Take(field.items, count))) |->
             truncate(Truthy(Take(field.items, count))[i], cap)]
    ELSE << >>

\* analytics.validate_ai_response, lines 146-180 (result is a JSON object,
\* or a value in which no key is found)
validate_ai_response(result) ==
    LET patterns == validated_list(result.patterns, 5, 200)
        insights == validated_list(result.insights, 3, 300)
        suggested_prompts == validated_list(result.suggested_prompts, 5, 150)
    IN [patterns |-> IF patterns = << >> THEN DefaultPatterns ELSE patterns,
        insights |-> IF insights = << >> THEN DefaultInsights ELSE insights,
        suggested_prompts |->
            IF suggested_prompts = << >> THEN DefaultPrompts ELSE suggested_prompts]

\* analytics.get_fallback_analysis, lines 182-201
get_fallback_analysis ==
    [patterns |->
        <<Str("Your consistent journaling shows dedication to self-reflection", 62),
          Str("You're actively engaging with your thoughts and experiences", 59),
          Str("Regular writing practice indicates commitment to personal growth", 64)>>,
     insights |->
        <<Str("Maintaining a journal demonstrates self-awareness and mindfulness", 65),
          Str("Your writing practice creates space for processing daily experiences", 68)>>,
     suggested_prompts |->
        <<Str("What did I accomplish today that I'm proud of?", 46),
          Str("What challenge helped me learn something new about myself?", 58),
          Str("What am I looking forward to in the coming days?", 48),
          Str("How did I show kindness to myself or others today?", 50),
          Str("What would I like to focus on improving tomorrow?", 49)>>]

\* the results analyze_entries answers with when no entry qualifies
NoEntriesResults ==
    [patterns |-> <<Str("No entries available for analysis", 33)>>,
     insights |-> <<Str("Start journaling to unlock personalized insights", 48)>>,
     suggested_prompts |->
        <<Str("What happened today that I want to remember?", 44),
          Str("How am I feeling right now and why?", 35),
          Str("What is one thing I'm grateful for today?", 41)>>]

\* the results analyze_entries answers with when fewer than three entries qualify
NeedMoreResults ==
    [patterns |-> <<Str("Continue journaling to identify meaningful patterns", 51)>>,
     insights |->
        <<Str("You're building a valuable habit of self-reflection", 51),
          Str("Each entry contributes to your personal growth journey", 54)>>,
     suggested_prompts |->
        <<Str("What emotions did I experience today?", 37),
          Str("What went well today and what could be improved?", 48),
          Str("What would I like to focus on tomorrow?", 39)>>]

\* a JSON document: an object with the three fields, an array (keys_array: one
\* holding the string "patterns"), a string, a number, or text that is no JSON
Json(type, patterns, insights, suggested_prompts) ==
    [type |-> type, patterns |-> patterns, insights |-> insights,
     suggested_prompts |-> suggested_prompts]
Value(type) == Json(type, Missing, Missing, Missing)

ai(len) == Str("ai", len)
JsonSamples ==
    {Value("garbage"), Value("array"), Value("keys_array"), Value("string"),
     Value("number"), Value("object"),
     Json("object", List(<<ai(40), ai(250)>>), List(<<ai(350)>>), List(<<ai(160)>>)),
     Json("object", List(<<ai(0), ai(0)>>), NotAList, List(<< >>)),
     Json("object", List(<<ai(0), ai(1), ai(2), ai(3), ai(4), ai(5), ai(6)>>),
          List(<<ai(1), ai(0), ai(3), ai(4)>>), Missing)}

\* response.text: empty, or a body between an opening and a closing fence
\* (the three backquotes of a fence are written ''' here)
Text(empty, lead, body, trail) ==
    [empty |-> empty, lead |-> lead, body |-> body, trail |-> trail]
EmptyText == Text(TRUE, "", Value("garbage"), "")
AnalysisRaise(error) == [kind |-> "raise", error |-> error, text |-> EmptyText]
AnalysisResponse(text) == [kind |-> "response", error |-> PlainError, text |-> text]
AnalysisOutcomes ==
    {AnalysisRaise(e) : e \in ErrorTexts}
    \cup {AnalysisResponse(EmptyText)}
    \cup {AnalysisResponse(Text(FALSE, "", body, "")) : body \in JsonSamples}
    \cup {AnalysisResponse(Text(FALSE, lead, Value("object"), "'''")) :
             lead \in {"'''json", "'''", "'''JSON"}}
    \cup {AnalysisResponse(Text(FALSE, "'''json", Value("garbage"), "'''")),
          AnalysisResponse(Text(FALSE, "'''json", Value("object"), ""))}

\* lines 106-117: the text left in front of the body once the fences are cut
clean_lead(lead) ==
    IF lead = "'''json" THEN ""
    ELSE IF lead = "'''" THEN ""
    ELSE IF lead = "'''JSON" THEN "JSON"
    ELSE lead

\* json.loads(clean_text) raises JSONDecodeError
JSONDecodeError(text) == clean_lead(text.lead) # "" \/ text.body.type = "garbage"

\* validate_ai_response(result) raises TypeError: "patterns" in result on a
\* number, result["patterns"] on an array that holds the key
TypeError(result) == result.type \in {"number", "keys_array"}

QuotaExceeded == "AI service quota exceeded. Please try again later."
Unavailable == "AI service temporarily unavailable"
ConfigurationError == "GEMINI_API_KEY environment variable not set"
ClientError == "Failed to initialize AI client"

\* a ValueError raised to the caller: its message and what the message contains
Raise(text, error) ==
    [done |-> TRUE, kind |-> "raise", text |-> text, error |-> error,
     analysis |-> NoAnalysis]
Returns(analysis) ==
    [done |-> TRUE, kind |-> "return", text |-> "", error |-> PlainError,
     analysis |-> analysis]
Retry ==
    [done |-> FALSE, kind |-> "none", text |-> "", error |-> PlainError,
     analysis |-> NoAnalysis]

\* lines 135-142: the handler of any exception but a JSON parse error
service_error(attempt, error, retries) ==
    IF attempt = retries
    THEN IF error.quota \/ error.limit
         THEN Raise(QuotaExceeded, ErrorText(TRUE, FALSE, FALSE))
         ELSE Raise(Unavailable, error)
    ELSE Retry

\* call_ai_service propagating the parse error of the last attempt
call_ai_service_step_raising(attempt, outcome, retries) ==
    IF outcome.kind = "raise" THEN service_error(attempt, outcome.error, retries)
    ELSE IF outcome.text.empty THEN service_error(attempt, PlainError, retries)
    ELSE IF JSONDecodeError(outcome.text)
    THEN IF attempt = retries THEN Raise(Unavailable, PlainError) ELSE Retry
    ELSE IF TypeError(outcome.text.body) THEN service_error(attempt, PlainError, retries)
    ELSE Returns(validate_ai_response(outcome.text.body))

\* analytics.call_ai_service, lines 91-142: one iteration of the loop
call_ai_service_step(attempt, outcome, retries) ==
    IF outcome.kind = "raise" THEN service_error(attempt, outcome.error, retries)
    ELSE IF outcome.text.empty THEN service_error(attempt, PlainError, retries)
    ELSE IF JSONDecodeError(outcome.text)
    THEN IF attempt = retries THEN Returns(get_fallback_analysis) ELSE Retry
    ELSE IF TypeError(outcome.text.body) THEN service_error(attempt, PlainError, retries)
    ELSE Returns(validate_ai_response(outcome.text.body))

\* analyze_entries answering 503 to every error of the client
analyze_entries_result_strict(called) ==
    IF called.kind = "raise"
    THEN [status |-> 503, kind |-> called.kind, text |-> called.text,
          error |-> called.error, analysis |-> NoAnalysis]
    ELSE [status |-> 200, kind |-> called.kind, text |-> called.text,
          error |-> called.error, analysis |-> called.analysis]

\* analytics.analyze_entries, lines 305-340: what the handler makes of the
\* client's return value or ValueError
analyze_entries_result(called) ==
    IF called.kind = "raise"
    THEN IF called.error.quota \/ called.error.limit
         THEN [status |-> 503, kind |-> called.kind, text |-> called.text,
               error |-> called.error, analysis |-> NoAnalysis]
         ELSE [status |-> 200, kind |-> called.kind, text |-> called.text,
               error |-> called.error, analysis |-> get_fallback_analysis]
    ELSE [status |-> 200, kind |-> called.kind, text |-> called.text,
          error |-> called.error, analysis |-> called.analysis]

\* the query of analyze_entries without its filter on deleted_at
qualifying_with_deleted(days, max_entries) ==
    Min(Cardinality({i \in 1..Len(journal) :
                        /\ journal[i].user_id = current_user
                        /\ journal[i].created_at >= today - days
                        /\ journal[i].answer # ""}),
        max_entries)

\* a range test that forgets the upper end
days_below_range(days) == days < 1
\* analytics.py lines 220 and 361: if days < 1 or days > 365
days_out_of_range(days) == days < 1 \/ days > 365

\* lines 234-240: the number of rows the query of analyze_entries returns
qualifying(days, max_entries) ==
    Min(Cardinality({i \in 1..Len(journal) :
                        /\ journal[i].user_id = current_user
                        /\ journal[i].deleted_at = NoDate
                        /\ journal[i].created_at >= today - days
                        /\ journal[i].answer # ""}),
        max_entries)

\* the response of a handler that names a row, lists rows or counts them
Reply(op, status, error, id, rows, count) ==
    [op |-> op, status |-> status, error |-> error, valid |-> FALSE,
     id |-> id, rows |-> rows, count |-> count]
\* flask-login's answer to a request without a logged-in session
Unauthorized(op) == Reply(op, 302, "login required", 0, << >>, 0)

\* the body of a response of analyze_entries: error, or message and
\* entries_analyzed (0 where the body has no such field)
AnalysisReply(status, error, message, entries_analyzed) ==
    [op |-> "analyze_entries", status |-> status, error |-> error, valid |-> FALSE,
     message |-> message, entries_analyzed |-> entries_analyzed]
NoEntriesMessage == "No journal entries found for analysis"
NeedMoreMessage == "Need more entries for comprehensive analysis"
CompletedMessage == "Analysis completed successfully"

\* the handler returns: lines 243-251, 259-278 and 305-340
AnalyzeFinish(result, message, entries) ==
    /\ ai_pc' = "analysis_done"
    /\ ai_result' = [kind |-> result.kind, text |-> result.text, error |-> result.error,
                     analysis |-> result.analysis]
    /\ resp' = IF result.status = 200
               THEN AnalysisReply(200, "", message, entries)
               ELSE AnalysisReply(result.status, result.text, "", 0)

\* the environment of the client: is GEMINI_API_KEY set, and does
\* genai.Client raise (and with what text)
ClientSetups ==
    {[api_key |-> FALSE, client_ok |-> TRUE, error |-> PlainError],
     [api_key |-> TRUE, client_ok |-> TRUE, error |-> PlainError]}
    \cup {[api_key |-> TRUE, client_ok |-> FALSE, error |-> e] :
             e \in {PlainError, ErrorText(FALSE, TRUE, FALSE)}}

\* analytics.analyze_entries, lines 209-302, and call_ai_service, lines 64-71:
\* the request up to the first attempt against the service
analyze_entries_begin(days, max_entries, setup) ==
    /\ ai_pc \in {"idle", "chat_done", "analysis_done"}
    /\ IF ~is_authenticated
       THEN /\ resp' = Unauthorized("analyze_entries")
            /\ UNCHANGED ai_vars
       ELSE
            /\ ai_attempt' = 0
            /\ ai_outcomes' = << >>
            /\ IF days_out_of_range(days)
               THEN /\ resp' = AnalysisReply(400, "Days parameter must be between 1 and 365", "", 0)
                    /\ ai_pc' = "analysis_done"
                    /\ ai_result' = NoResult
               ELSE IF max_entries < 1 \/ max_entries > 50
               THEN /\ resp' = AnalysisReply(400, "Max entries parameter must be between 1 and 50",
                                             "", 0)
                    /\ ai_pc' = "analysis_done"
                    /\ ai_result' = NoResult
               ELSE IF qualifying(days, max_entries) = 0
               THEN AnalyzeFinish([status |-> 200, kind |-> "canned", text |-> "",
                                   error |-> PlainError, analysis |-> NoEntriesResults],
                                  NoEntriesMessage, 0)
               ELSE IF qualifying(days, max_entries) < 3
               THEN AnalyzeFinish([status |-> 200, kind |-> "canned", text |-> "",
                                   error |-> PlainError, analysis |-> NeedMoreResults],
                                  NeedMoreMessage, qualifying(days, max_entries))
               ELSE IF ~setup.api_key
               THEN AnalyzeFinish(analyze_entries_result(Raise(ConfigurationError, PlainError)),
                                  CompletedMessage, qualifying(days, max_entries))
               ELSE IF ~setup.client_ok
               THEN AnalyzeFinish(analyze_entries_result(Raise(ClientError, setup.error)),
                                  CompletedMessage, qualifying(days, max_entries))
               ELSE /\ ai_pc' = "analysis"
                    /\ ai_result' = NoResult
                    /\ resp' = AnalysisReply(0, "", "", qualifying(days, max_entries))
    /\ UNCHANGED <<store_vars, chat_vars, fn_vars>>

\* analytics.call_ai_service, lines 90-144: the loop for attempt in
\* range(retries + 1), and analyze_entries, lines 305-340, once it ends
call_ai_service_attempt(outcome) ==
    /\ ai_pc = "analysis"
    /\ LET step == call_ai_service_step(ai_attempt, outcome, DefaultRetries)
           exhausted == ~step.done /\ ai_attempt + 1 > DefaultRetries
       IN /\ ai_outcomes' = Append(ai_outcomes, outcome)
          /\ IF step.done
             THEN AnalyzeFinish(analyze_entries_result(step), CompletedMessage,
                                resp.entries_analyzed)
             ELSE IF exhausted
             THEN AnalyzeFinish(analyze_entries_result(Returns(get_fallback_analysis)),
                                CompletedMessage, resp.entries_analyzed)
             ELSE /\ ai_pc' = "analysis"
                  /\ UNCHANGED <<ai_result, resp>>
          /\ ai_attempt' = IF step.done \/ exhausted THEN ai_attempt ELSE ai_attempt + 1
    /\ UNCHANGED <<store_vars, chat_vars, fn_vars>>

\* a journal the requests above can leave behind: ann registered on day 0,
\* wrote on the days 1..k, soft-deleted at most one entry, and is logged in
InitAI ==
    /\ today = MaxDay
    /\ current_user = 1
    /\ \E k \in 0..MaxEntries, gone \in 0..MaxEntries :
          /\ gone <= k
          /\ users = <<[NewUser("ann", "ann@x.io", 0) EXCEPT
                           !.current_streak = k, !.longest_streak = k,
                           !.last_activity_date = k]>>
          /\ journal = [i \in 1..k |->
                           [NewJournal(1, "p1", "a1", "text", i) EXCEPT
                               !.deleted_at = IF i = gone THEN i ELSE NoDate]]
          /\ hist_max = <<k>>
    /\ resp = Response("none", 0, "")
    /\ AIIdle
    /\ NoChat
    /\ FnIdle

\* order_by(Journal.created_at.desc()) over the rows with these ids
RECURSIVE newest_first(_)
newest_first(ids) ==
    IF ids = {} THEN << >>
    ELSE LET top == CHOOSE i \in ids : \A j \in ids :
                        \/ journal[j].created_at < journal[i].created_at
                        \/ journal[j].created_at = journal[i].created_at /\ j <= i
         IN <<top>> \o newest_first(ids \ {top})

\* analytics.get_mood_trends, lines 354-422: the rows counted
get_mood_trends(days) ==
    /\ resp' = IF ~is_authenticated THEN Unauthorized("get_mood_trends")
               ELSE IF days_out_of_range(days)
               THEN Reply("get_mood_trends", 400, "Days parameter must be between 1 and 365",
                          0, << >>, 0)
               ELSE LET entries == newest_first({i \in DOMAIN journal :
                                       /\ journal[i].user_id = current_user
                                       /\ journal[i].deleted_at = NoDate
                                       /\ journal[i].created_at >= today - days})
                    IN Reply("get_mood_trends", 200, "", 0, entries, Len(entries))
    /\ sent' = << >>
    /\ UNCHANGED <<store_vars, ai_vars, conversation, fn_vars>>

AnalyzeParams ==
    {<<30, 25>>, <<0, 25>>, <<366, 25>>, <<30, 0>>, <<30, 51>>, <<1, 25>>, <<30, 2>>,
     <<30, 1>>, <<0, 0>>, <<365, 50>>}
TrendDays == {0, 1, 365, 366}

NextAI ==
    \/ call_gemini_api_begin
    \/ \E outcome \in ChatOutcomes : call_gemini_api_attempt(outcome)
    \/ \E params \in AnalyzeParams, setup \in ClientSetups :
          analyze_entries_begin(params[1], params[2], setup)
    \/ \E outcome \in AnalysisOutcomes : call_ai_service_attempt(outcome)
    \/ \E days \in TrendDays : ai_pc \notin {"chat", "analysis"} /\ get_mood_trends(days)

SpecAI == InitAI /\ [][NextAI]_vars

\* ----------------------------------------------- properties of SpecAI
Last(seq) == seq[Len(seq)]
InAnalysis == ai_pc \in {"analysis", "analysis_done"} /\ Len(ai_outcomes) > 0
InChat == ai_pc \in {"chat", "chat_done"} /\ Len(ai_outcomes) > 0
Done == ai_pc \in {"chat_done", "analysis_done"}

\* the attempt failed with an error whose text contains quota, limit or safety
Fatal(outcome) ==
    /\ outcome.kind = "raise"
    /\ outcome.error.quota \/ outcome.error.limit \/ outcome.error.safety
QuotaFailure(outcome) ==
    /\ outcome.kind = "raise"
    /\ outcome.error.quota \/ outcome.error.limit
PlainFailure(outcome) == outcome.kind = "raise" /\ ~Fatal(outcome)
Unparseable(outcome) ==
    /\ outcome.kind = "response"
    /\ ~outcome.text.empty
    /\ JSONDecodeError(outcome.text)
Failed(outcome) ==
    \/ outcome.kind = "raise"
    \/ outcome.text.empty
    \/ JSONDecodeError(outcome.text)
    \/ TypeError(outcome.text.body)

\* C7: in both clients, an attempt that fails with an error whose text
\* contains quota, limit or safety is the last attempt of the call: no
\* attempt follows it and the call has ended
C7_FatalErrorNotRetried ==
    \A i \in 1..Len(ai_outcomes) :
        Fatal(ai_outcomes[i]) => i = Len(ai_outcomes) /\ Done

\* C8: a call makes at most retries+1 attempts, one after the other, and has
\* ended once they are made; the chat client always returns a text, and after
\* an error that is neither quota/limit nor safety it has ended only when the
\* attempts are exhausted, with the technical-difficulty message
C8_BoundedAttempts ==
    /\ Len(ai_outcomes) <= DefaultRetries + 1
    /\ ai_pc \in {"chat", "analysis"} =>
          Len(ai_outcomes) = ai_attempt /\ ai_attempt <= DefaultRetries
    /\ ai_pc = "chat_done" => ai_result.kind = "return" /\ ai_result.text # ""
    /\ (ai_pc = "chat_done" /\ InChat /\ PlainFailure(Last(ai_outcomes))) =>
          /\ Len(ai_outcomes) = DefaultRetries + 1
          /\ ai_result.text = TechnicalMessage
C8_Witness ==
    /\ ai_pc = "chat_done"
    /\ Len(ai_outcomes) = DefaultRetries + 1
    /\ \A i \in 1..Len(ai_outcomes) : PlainFailure(ai_outcomes[i])
    /\ ai_result.text = TechnicalMessage

\* C9: in the analysis client a response text that is no JSON once the fences
\* are cut is retried; when the last of the retries+1 attempts does not parse
\* either, the client returns the fallback analysis and raises nothing
C9_ParseFailureFallsBack ==
    (ai_pc = "analysis_done" /\ InAnalysis /\ Unparseable(Last(ai_outcomes))) =>
        /\ Len(ai_outcomes) = DefaultRetries + 1
        /\ ai_result.kind = "return"
        /\ ai_result.analysis = get_fallback_analysis
C9_Witness ==
    /\ ai_pc = "analysis_done"
    /\ Len(ai_outcomes) = DefaultRetries + 1
    /\ \A i \in 1..Len(ai_outcomes) : Unparseable(ai_outcomes[i])
    /\ ai_result.kind = "return"
    /\ ai_result.analysis = get_fallback_analysis

\* three non-empty lists of non-empty strings
WellFormed(analysis) ==
    /\ Len(analysis.patterns) > 0
    /\ Len(analysis.insights) > 0
    /\ Len(analysis.suggested_prompts) > 0
    /\ \A i \in 1..Len(analysis.patterns) : analysis.patterns[i].len > 0
    /\ \A i \in 1..Len(analysis.insights) : analysis.insights[i].len > 0
    /\ \A i \in 1..Len(analysis.suggested_prompts) : analysis.suggested_prompts[i].len > 0

\* the AI client was called: three or more entries qualified
\* the last request answered is an analysis that reached the client
Analyzed ==
    /\ resp.op = "analyze_entries"
    /\ ai_pc = "analysis_done"
    /\ ai_result.kind \in {"return", "raise"}

\* C10: with three or more qualifying entries the answer of analyze is a 503
\* or a 200; a 503 only when the last attempt (or the client's construction)
\* failed with a quota/limit error; a 200 carries three non-empty lists; and
\* when the call failed otherwise (error, empty text, no JSON, a JSON value
\* that is no object, no API key) the 200 carries the fallback analysis
C10_AnalyzeAbsorbsFailures ==
    Analyzed =>
        /\ resp.status \in {200, 503}
        /\ resp.status = 503 =>
              IF Len(ai_outcomes) > 0 THEN QuotaFailure(Last(ai_outcomes))
              ELSE ai_result.text = ClientError /\ ai_result.error.limit
        /\ resp.status = 200 => WellFormed(ai_result.analysis)
        /\ (InAnalysis /\ Failed(Last(ai_outcomes)) /\ ~QuotaFailure(Last(ai_outcomes))) =>
              resp.status = 200 /\ ai_result.analysis = get_fallback_analysis
        /\ (Len(ai_outcomes) = 0 /\ ai_result.text = ConfigurationError) =>
              resp.status = 200 /\ ai_result.analysis = get_fallback_analysis
C10_Witness ==
    /\ Analyzed
    /\ Len(ai_outcomes) = DefaultRetries + 1
    /\ PlainFailure(Last(ai_outcomes))
    /\ resp.status = 200
    /\ ai_result.analysis = get_fallback_analysis

\* a response that is blocked for safety, or that carries no text
NoContent(outcome) ==
    /\ outcome.kind = "response"
    /\ outcome.blocked \/ ~outcome.parts \/ strip(outcome.text) = ""

\* C30: in the chat client a safety-blocked response and a response without
\* content end the call at that attempt: it is the last call to the model, and
\* the client returns a canned apology without raising
C30_NoContentEndsCall ==
    ai_pc \in {"chat", "chat_done"} =>
        \A i \in DOMAIN ai_outcomes :
            NoContent(ai_outcomes[i]) =>
                /\ i = Len(ai_outcomes)
                /\ ai_pc = "chat_done"
                /\ ai_result.kind = "return"
                /\ ai_result.text \in {BlockedMessage, RephraseMessage, UnableMessage}

\* the caller's entries that qualify for an analysis over the last days:
\* not deleted, with an answer, inside the window
QualifyingEntries(days) ==
    {i \in DOMAIN journal : /\ journal[i].user_id = current_user
                            /\ journal[i].deleted_at = NoDate
                            /\ journal[i].answer # ""
                            /\ journal[i].created_at >= today - days}
InRange(params) ==
    /\ params[1] >= 1 /\ params[1] <= 365
    /\ params[2] >= 1 /\ params[2] <= 50
\* the request ends without a call to the AI service, with this answer
AnsweredWithoutAI(message, results, entries) ==
    /\ resp' = AnalysisReply(200, "", message, entries)
    /\ ai_result'.analysis = results
    /\ ai_pc' = "analysis_done"
    /\ ai_outcomes' = << >>

C27_ParametersCheckedFirst ==
    [][/\ \A params \in AnalyzeParams, setup \in ClientSetups :
             (~InRange(params) /\ analyze_entries_begin(params[1], params[2], setup)) =>
                 /\ resp' = AnalysisReply(400,
                                IF params[1] < 1 \/ params[1] > 365
                                THEN "Days parameter must be between 1 and 365"
                                ELSE "Max entries parameter must be between 1 and 50",
                                "", 0)
                 /\ ai_pc' = "analysis_done"
                 /\ ai_outcomes' = << >>
                 /\ ai_result' = NoResult
       /\ \A days \in TrendDays :
             ((days < 1 \/ days > 365) /\ get_mood_trends(days)) =>
                 /\ resp' = Reply("get_mood_trends", 400,
                                  "Days parameter must be between 1 and 365", 0, << >>, 0)
                 /\ UNCHANGED ai_vars]_vars
\* analyze was asked for 366 days by a user with three qualifying entries,
\* and answered 400
C27_Witness ==
    /\ resp.op = "analyze_entries"
    /\ resp.status = 400
    /\ resp.error = "Days parameter must be between 1 and 365"
    /\ Cardinality(QualifyingEntries(365)) >= 3
    /\ ai_pc = "analysis_done"
    /\ ai_outcomes = << >>

\* ============================================================ sanitizers
\* A text is the sequence of its characters.  The regular expressions of the
\* two sanitizers are matched character by character, as re.sub does: the
\* leftmost match first, greedy, and the scan resumes behind the match.
Digits == {"0", "1", "2", "3", "4", "5", "6", "7", "8", "9"}
LowerCase == <<"a", "b", "c", "d", "e", "f", "g", "h", "i", "j", "k", "l", "m", "n", "o", "p", "q", "r", "s", "t", "u", "v", "w", "x", "y", "z">>
UpperCase == <<"A", "B", "C", "D", "E", "F", "G", "H", "I", "J", "K", "L", "M", "N", "O", "P", "Q", "R", "S", "T", "U", "V", "W", "X", "Y", "Z">>
Letters == {LowerCase[k] : k \in DOMAIN LowerCase} \cup {UpperCase[k] : k \in DOMAIN UpperCase}
WordChars == Digits \cup Letters \cup {"_"}
Whitespace == {" "}
lower(c) ==
    IF \E k \in DOMAIN UpperCase : UpperCase[k] = c
    THEN LowerCase[CHOOSE k \in DOMAIN UpperCase : UpperCase[k] = c]
    ELSE c

\* the character at position i, or no character
At(text, i) == IF i \in 1..Len(text) THEN text[i] ELSE ""
\* \b holds in front of position i
word_boundary(text, i) == (At(text, i - 1) \in WordChars) # (At(text, i) \in WordChars)
\* the k characters from position i on are all in chars
all_in(text, i, k, chars) == \A j \in i..(i + k - 1) : At(text, j) \in chars
\* the position behind an optional character of chars at position i
skip(text, i, chars) == IF At(text, i) \in chars THEN i + 1 ELSE i
\* the last position of the longest run of chars that starts at position i
run_end(text, i, chars) ==
    IF i > Len(text) THEN i - 1
    ELSE LET stops == {j \in i..(Len(text) + 1) : At(text, j) \notin chars}
         IN (CHOOSE j \in stops : \A k \in stops : j <= k) - 1
Largest(S) == CHOOSE x \in S : \A y \in S : y <= x

\* \b[A-Za-z0-9._%+-]+@[A-Za-z0-9.-]+\.[A-Z|a-z]{2,}\b matched at position i:
\* the position of the last character of the match, or 0
email_end(text, i) ==
    LET local == run_end(text, i, Digits \cup Letters \cup {".", "_", "%", "+", "-"})
        domain == run_end(text, local + 2, Digits \cup Letters \cup {".", "-"})
        ends == {e \in 1..Len(text) :
                    \E dot \in (local + 3)..domain :
                        /\ text[dot] = "."
                        /\ e >= dot + 2
                        /\ all_in(text, dot + 1, e - dot, Letters \cup {"|"})
                        /\ word_boundary(text, e + 1)}
    IN IF word_boundary(text, i) /\ local >= i /\ At(text, local + 1) = "@" /\ ends # {}
       THEN Largest(ends)
       ELSE 0

\* \b\d{3}[-.]?\d{3}[-.]?\d{4}\b
phone_end(text, i) ==
    LET b == skip(text, i + 3, {"-", "."})
        c == skip(text, b + 3, {"-", "."})
    IN IF /\ word_boundary(text, i)
          /\ all_in(text, i, 3, Digits)
          /\ all_in(text, b, 3, Digits)
          /\ all_in(text, c, 4, Digits)
          /\ word_boundary(text, c + 4)
       THEN c + 3
       ELSE 0

\* \b\(\d{3}\)\s?\d{3}[-.]?\d{4}\b
phone_paren_end(text, i) ==
    LET b == skip(text, i + 5, Whitespace)
        c == skip(text, b + 3, {"-", "."})
    IN IF /\ word_boundary(text, i)
          /\ At(text, i) = "("
          /\ all_in(text, i + 1, 3, Digits)
          /\ At(text, i + 4) = ")"
          /\ all_in(text, b, 3, Digits)
          /\ all_in(text, c, 4, Digits)
          /\ word_boundary(text, c + 4)
       THEN c + 3
       ELSE 0

\* \b\d{3}-\d{2}-\d{4}\b
ssn_end(text, i) ==
    IF /\ word_boundary(text, i)
       /\ all_in(text, i, 3, Digits)
       /\ At(text, i + 3) = "-"
       /\ all_in(text, i + 4, 2, Digits)
       /\ At(text, i + 6) = "-"
       /\ all_in(text, i + 7, 4, Digits)
       /\ word_boundary(text, i + 11)
    THEN i + 10
    ELSE 0

\* \b\d{4}[-\s]?\d{4}[-\s]?\d{4}[-\s]?\d{4}\b
card_end(text, i) ==
    LET b == skip(text, i + 4, {"-"} \cup Whitespace)
        c == skip(text, b + 4, {"-"} \cup Whitespace)
        d == skip(text, c + 4, {"-"} \cup Whitespace)
    IN IF /\ word_boundary(text, i)
          /\ all_in(text, i, 4, Digits)
          /\ all_in(text, b, 4, Digits)
          /\ all_in(text, c, 4, Digits)
          /\ all_in(text, d, 4, Digits)
          /\ word_boundary(text, d + 4)
       THEN d + 3
       ELSE 0

StreetWords ==
    {<<"s", "t", "r", "e", "e", "t">>, <<"s", "t">>, <<"a", "v", "e", "n", "u", "e">>,
     <<"a", "v", "e">>, <<"r", "o", "a", "d">>, <<"r", "d">>,
     <<"b", "o", "u", "l", "e", "v", "a", "r", "d">>, <<"b", "l", "v", "d">>,
     <<"d", "r", "i", "v", "e">>, <<"d", "r">>, <<"l", "a", "n", "e">>, <<"l", "n">>}
word_at(text, i, word) == \A k \in 1..Len(word) : lower(At(text, i + k - 1)) = word[k]

\* \b\d+\s+[A-Za-z\s]+(Street|St|Avenue|Ave|Road|Rd|Boulevard|Blvd|Drive|Dr|Lane|Ln)\b,
\* ignoring case: the street word that starts last ends the match
address_end(text, i) ==
    LET number == run_end(text, i, Digits)
        words == run_end(text, number + 1, Letters \cup Whitespace)
        starts == {p \in (number + 3)..words :
                      \E word \in StreetWords :
                          word_at(text, p, word) /\ word_boundary(text, p + Len(word))}
    IN IF /\ word_boundary(text, i)
          /\ number >= i
          /\ At(text, number + 1) \in Whitespace
          /\ starts # {}
       THEN LET p == Largest(starts)
                word == CHOOSE w \in StreetWords :
                            word_at(text, p, w) /\ word_boundary(text, p + Len(w))
            IN p + Len(word) - 1
       ELSE 0

Patterns == <<"email", "phone", "phone_paren", "ssn", "card", "address">>
match_end(pattern, text, i) ==
    CASE pattern = "email" -> email_end(text, i)
      [] pattern = "phone" -> phone_end(text, i)
      [] pattern = "phone_paren" -> phone_paren_end(text, i)
      [] pattern = "ssn" -> ssn_end(text, i)
      [] pattern = "card" -> card_end(text, i)
      [] pattern = "address" -> address_end(text, i)

Placeholder(pattern) ==
    CASE pattern = "email" -> <<"[", "E", "M", "A", "I", "L", "]">>
      [] pattern = "phone" -> <<"[", "P", "H", "O", "N", "E", "]">>
      [] pattern = "phone_paren" -> <<"[", "P", "H", "O", "N", "E", "]">>
      [] pattern = "ssn" -> <<"[", "S", "S", "N", "]">>
      [] pattern = "card" -> <<"[", "C", "A", "R", "D", "]">>
      [] pattern = "address" -> <<"[", "A", "D", "D", "R", "E", "S", "S", "]">>

\* re.sub with count=1: only the first match is replaced
RECURSIVE re_sub_first(_, _, _)
re_sub_first(pattern, text, i) ==
    IF i > Len(text) THEN << >>
    ELSE IF match_end(pattern, text, i) > 0
    THEN Placeholder(pattern) \o SubSeq(text, match_end(pattern, text, i) + 1, Len(text))
    ELSE <<text[i]>> \o re_sub_first(pattern, text, i + 1)

\* re.sub(pattern, placeholder, text), from position i on: the scan goes to the
\* leftmost match, replaces it and goes on behind it
RECURSIVE re_sub(_, _, _)
re_sub(pattern, text, i) ==
    LET starts == {p \in i..Len(text) : match_end(pattern, text, p) > 0}
    IN IF starts = {} THEN SubSeq(text, i, Len(text))
       ELSE LET p == CHOOSE q \in starts : \A r \in starts : q <= r
            IN SubSeq(text, i, p - 1) \o Placeholder(pattern)
                  \o re_sub(pattern, text, match_end(pattern, text, p) + 1)

\* the six substitutions, in the order of the code
RECURSIVE redact_from(_, _)
redact_from(text, k) ==
    IF k > Len(Patterns) THEN text
    ELSE redact_from(re_sub(Patterns[k], text, 1), k + 1)
redact(text) == redact_from(text, 1)

\* str.strip()
str_strip(text) ==
    LET keep == {i \in 1..Len(text) : text[i] \notin Whitespace}
    IN IF keep = {} THEN << >>
       ELSE SubSeq(text, CHOOSE i \in keep : \A j \in keep : i <= j, Largest(keep))

\* chat.sanitize_journal_content_for_ai, lines 40-55: redact, then truncate
sanitize_journal_content_for_ai(text, max_length) ==
    IF text = << >> THEN << >>
    ELSE str_strip(Take(redact(text), max_length))

\* analytics.remove_sensitive_info, lines 13-34
remove_sensitive_info(text) ==
    IF text = << >> THEN text ELSE str_strip(redact(text))

\* analytics.sanitize_entries_for_ai, lines 43-48, on one field of an entry
\* (prompt with limit 50, answer with limit 200): truncate, then redact
sanitize_field(text, limit) ==
    remove_sensitive_info(IF text # << >> THEN Take(text, limit) ELSE << >>)

\* --------------------------------------------------- the sanitizers alone
MaxFragments == 2
Fragments ==
    <<<<"a", "@", "b", ".", "c", "o">>,
      <<"5", "5", "5", "-", "1", "2", "3", "-", "4", "5", "6", "7">>,
      <<"5", "5", "5", "1", "2", "3", "4", "5", "6", "7">>,
      <<"5", "5", "5", ".", "1", "2", "3", ".", "4", "5", "6", "7">>,
      <<"(", "5", "5", "5", ")", " ", "1", "2", "3", "-", "4", "5", "6", "7">>,
      <<"1", "2", "3", "-", "4", "5", "-", "6", "7", "8", "9">>,
      <<"1", "2", "3", "4", " ", "5", "6", "7", "8", " ", "1", "2", "3", "4", " ", "5", "6", "7", "8">>,
      <<"1", "2", " ", "E", "l", "m", " ", "S", "t">>,
      <<" ">>,
      <<"x">>,
      <<"1">>,
      <<".">>>>
ScenarioC == <<"C", "o", "n", "t", "a", "c", "t", " ", "m", "e", " ", "a", "t", " ", "a", "@", "b", ".", "c", "o", "m", " ", "o", "r", " ", "5", "5", "5", "-", "1", "2", "3", "-", "4", "5", "6", "7">>
RECURSIVE Joined(_)
Joined(k) ==
    IF k = 0 THEN {<< >>}
    ELSE Joined(k - 1) \cup {t \o Fragments[f] : t \in Joined(k - 1), f \in DOMAIN Fragments}
TwoPhones == <<"5", "5", "5", "1", "2", "3", "4", "5", "6", "7", " ", "5", "5", "5", "-", "1", "2", "3", "-", "4", "5", "6", "7">>
SanitizeTexts == Joined(MaxFragments) \cup {ScenarioC, TwoPhones}
SanitizeLengths == {6, 10, 12, 50, 200}

\* the tables are empty and no request is running
AtRest ==
    /\ today = 0
    /\ users = << >>
    /\ journal = << >>
    /\ current_user = Anonymous
    /\ resp = Response("none", 0, "")
    /\ hist_max = << >>
    /\ AIIdle
    /\ NoChat

InitSanitize ==
    /\ AtRest
    /\ fn_pc = "sanitize"
    /\ fn_in \in [text : SanitizeTexts, max_length : SanitizeLengths]
    /\ fn_out = << >>
    /\ requests = << >>

\* the chat sanitizer is applied to the text
sanitize_chat ==
    /\ fn_pc = "sanitize"
    /\ fn_pc' = "sanitize_journal_content_for_ai"
    /\ fn_out' = sanitize_journal_content_for_ai(fn_in.text, fn_in.max_length)
    /\ UNCHANGED <<fn_in, resp, requests>>
    /\ UNCHANGED <<store_vars, ai_vars, chat_vars>>

\* the analysis sanitizer is applied to the text
sanitize_analysis ==
    /\ fn_pc = "sanitize"
    /\ fn_pc' = "sanitize_entries_for_ai"
    /\ fn_out' = sanitize_field(fn_in.text, fn_in.max_length)
    /\ UNCHANGED <<fn_in, resp, requests>>
    /\ UNCHANGED <<store_vars, ai_vars, chat_vars>>

NextSanitize == sanitize_chat \/ sanitize_analysis
SpecSanitize == InitSanitize /\ [][NextSanitize]_vars

\* ------------------------------------------ properties of SpecSanitize
Sanitized == fn_pc \in {"sanitize_journal_content_for_ai", "sanitize_entries_for_ai"}
\* the text holds a match of one of the six patterns
has_match(text) ==
    \E k \in DOMAIN Patterns, i \in 1..Len(text) : match_end(Patterns[k], text, i) > 0

\* C11: the text a sanitizer hands to the AI service holds no match of the
\* email, phone, SSN, card or address pattern
C11_NoPatternInOutput == Sanitized => ~has_match(fn_out)

\* C12 as stated: applying a sanitizer to its own output, with the same
\* maximum length, changes nothing
C12_Idempotent ==
    /\ fn_pc = "sanitize_journal_content_for_ai" =>
          sanitize_journal_content_for_ai(fn_out, fn_in.max_length) = fn_out
    /\ fn_pc = "sanitize_entries_for_ai" =>
          sanitize_field(fn_out, fn_in.max_length) = fn_out

\* C12, amended: a sanitizer is idempotent on the texts its truncation does
\* not cut -- for the chat sanitizer the redacted text is no longer than the
\* maximum length, for the analysis sanitizer neither the text nor its output is
C12_IdempotentWithinLength ==
    /\ (fn_pc = "sanitize_journal_content_for_ai"
        /\ Len(redact(fn_in.text)) <= fn_in.max_length) =>
          sanitize_journal_content_for_ai(fn_out, fn_in.max_length) = fn_out
    /\ (fn_pc = "sanitize_entries_for_ai"
        /\ Len(fn_in.text) <= fn_in.max_length
        /\ Len(fn_out) <= fn_in.max_length) =>
          sanitize_field(fn_out, fn_in.max_length) = fn_out
C12_Witness ==
    /\ fn_pc = "sanitize_entries_for_ai"
    /\ fn_in.text = TwoPhones
    /\ Len(fn_in.text) <= fn_in.max_length
    /\ fn_out # fn_in.text
    /\ sanitize_field(fn_out, fn_in.max_length) = fn_out

\* (NNN) NNN-NNNN, with or without the space, starts at position i
paren_phone_at(text, i) ==
    /\ At(text, i) = "("
    /\ all_in(text, i + 1, 3, Digits)
    /\ At(text, i + 4) = ")"
    /\ all_in(text, skip(text, i + 5, Whitespace), 3, Digits)
    /\ At(text, skip(text, i + 5, Whitespace) + 3) = "-"
    /\ all_in(text, skip(text, i + 5, Whitespace) + 4, 4, Digits)
    /\ At(text, skip(text, i + 5, Whitespace) + 8) \notin Digits
ScenarioCOut ==
    <<"C", "o", "n", "t", "a", "c", "t", " ", "m", "e", " ", "a", "t", " ",
      "[", "E", "M", "A", "I", "L", "]", " ", "o", "r", " ",
      "[", "P", "H", "O", "N", "E", "]">>

\* C19: of a text that fits the maximum length, every phone number in either
\* format and every email address is replaced: none is left in the output;
\* and "Contact me at a@b.com or 555-123-4567" with maximum length 200
\* becomes "Contact me at [EMAIL] or [PHONE]"
C19_PhonesAndEmailsReplaced ==
    Sanitized =>
        /\ (fn_in.text = ScenarioC /\ fn_in.max_length = 200) => fn_out = ScenarioCOut
        /\ Len(fn_in.text) <= fn_in.max_length =>
              \A i \in 1..Len(fn_out) :
                  /\ ~paren_phone_at(fn_out, i)
                  /\ phone_end(fn_out, i) = 0
                  /\ email_end(fn_out, i) = 0

\* the spec's order: cut the text to the maximum length, redact what is left
truncate_then_redact(text, max_length) ==
    IF text = << >> THEN << >> ELSE str_strip(redact(Take(text, max_length)))

\* C28: each sanitizer truncates to the maximum length first and redacts
\* second: the patterns see no more than max_length characters, and what a
\* sanitizer returns is the redaction of the truncated text
C28_TruncateThenRedact == Sanitized => fn_out = truncate_then_redact(fn_in.text, fn_in.max_length)

\* ================================================================ codec
\* Conversation.chat holds json.dumps of the turn list.  A Python value is a
\* node of its type and content; a JSON text is the sequence of its tokens.
PyNone == [type |-> "NoneType", value |-> << >>]
PyInt(n) == [type |-> "int", value |-> <<n>>]
PyStr(s) == [type |-> "str", value |-> <<s>>]
PyList(items) == [type |-> "list", value |-> items]
\* a dict: its items in insertion order, each a pair of key and value
PyDict(items) == [type |-> "dict", value |-> items]
PyStrs(strings) == PyList([k \in DOMAIN strings |-> PyStr(strings[k])])
\* a turn of a conversation: {"role": role, "parts": [part, ...]}
Turn(role, parts) == PyDict(<<<<"role", PyStr(role)>>, <<"parts", PyStrs(parts)>>>>)

Token(t, s) == [t |-> t, s |-> s]
Punct(t) == Token(t, "")
TokenAt(tokens, i) == IF i \in 1..Len(tokens) THEN tokens[i].t ELSE "eof"

\* json.dumps writing the items of a list last to first
RECURSIVE json_dumps_reversed(_)
json_dumps_reversed(node) ==
    CASE node.type = "NoneType" -> <<Punct("null")>>
      [] node.type = "int" -> <<Token("number", node.value[1])>>
      [] node.type = "str" -> <<Token("string", node.value[1])>>
      [] node.type = "list" ->
            LET RECURSIVE items(_)
                items(k) ==
                    IF k < 1 THEN << >>
                    ELSE json_dumps_reversed(node.value[k])
                         \o (IF k > 1 THEN <<Punct(",")>> ELSE << >>)
                         \o items(k - 1)
            IN <<Punct("[")>> \o items(Len(node.value)) \o <<Punct("]")>>
      [] node.type = "dict" ->
            LET RECURSIVE items(_)
                items(k) ==
                    IF k > Len(node.value) THEN << >>
                    ELSE <<Token("string", node.value[k][1]), Punct(":")>>
                         \o json_dumps_reversed(node.value[k][2])
                         \o (IF k < Len(node.value) THEN <<Punct(",")>> ELSE << >>)
                         \o items(k + 1)
            IN <<Punct("{")>> \o items(1) \o <<Punct("}")>>

\* json.dumps(data)
RECURSIVE json_dumps(_)
json_dumps(node) ==
    CASE node.type = "NoneType" -> <<Punct("null")>>
      [] node.type = "int" -> <<Token("number", node.value[1])>>
      [] node.type = "str" -> <<Token("string", node.value[1])>>
      [] node.type = "list" ->
            LET RECURSIVE items(_)
                items(k) ==
                    IF k > Len(node.value) THEN << >>
                    ELSE json_dumps(node.value[k])
                         \o (IF k < Len(node.value) THEN <<Punct(",")>> ELSE << >>)
                         \o items(k + 1)
            IN <<Punct("[")>> \o items(1) \o <<Punct("]")>>
      [] node.type = "dict" ->
            LET RECURSIVE items(_)
                items(k) ==
                    IF k > Len(node.value) THEN << >>
                    ELSE <<Token("string", node.value[k][1]), Punct(":")>>
                         \o json_dumps(node.value[k][2])
                         \o (IF k < Len(node.value) THEN <<Punct(",")>> ELSE << >>)
                         \o items(k + 1)
            IN <<Punct("{")>> \o items(1) \o <<Punct("}")>>

\* the JSON decoder: the value that starts at token i and the position behind it
Parsed(node, next) == [ok |-> TRUE, node |-> node, next |-> next]
NotParsed == [ok |-> FALSE, node |-> PyNone, next |-> 0]
RECURSIVE parse_value(_, _)
RECURSIVE parse_list(_, _, _)
RECURSIVE parse_dict(_, _, _)
parse_value(tokens, i) ==
    CASE TokenAt(tokens, i) = "null" -> Parsed(PyNone, i + 1)
      [] TokenAt(tokens, i) = "number" -> Parsed(PyInt(tokens[i].s), i + 1)
      [] TokenAt(tokens, i) = "string" -> Parsed(PyStr(tokens[i].s), i + 1)
      [] TokenAt(tokens, i) = "[" ->
            IF TokenAt(tokens, i + 1) = "]" THEN Parsed(PyList(<< >>), i + 2)
            ELSE parse_list(tokens, i + 1, << >>)
      [] TokenAt(tokens, i) = "{" ->
            IF TokenAt(tokens, i + 1) = "}" THEN Parsed(PyDict(<< >>), i + 2)
            ELSE parse_dict(tokens, i + 1, << >>)
      [] OTHER -> NotParsed
parse_list(tokens, i, items) ==
    LET item == parse_value(tokens, i)
    IN IF ~item.ok THEN NotParsed
       ELSE IF TokenAt(tokens, item.next) = ","
       THEN parse_list(tokens, item.next + 1, Append(items, item.node))
       ELSE IF TokenAt(tokens, item.next) = "]"
       THEN Parsed(PyList(Append(items, item.node)), item.next + 1)
       ELSE NotParsed
parse_dict(tokens, i, items) ==
    IF TokenAt(tokens, i) # "string" \/ TokenAt(tokens, i + 1) # ":" THEN NotParsed
    ELSE LET item == parse_value(tokens, i + 2)
         IN IF ~item.ok THEN NotParsed
            ELSE IF TokenAt(tokens, item.next) = ","
            THEN parse_dict(tokens, item.next + 1, Append(items, <<tokens[i].s, item.node>>))
            ELSE IF TokenAt(tokens, item.next) = "}"
            THEN Parsed(PyDict(Append(items, <<tokens[i].s, item.node>>)), item.next + 1)
            ELSE NotParsed

\* json.loads(text): the value, or not ok when json.JSONDecodeError is raised
json_loads(tokens) ==
    LET value == parse_value(tokens, 1)
    IN IF value.ok /\ value.next = Len(tokens) + 1 THEN value ELSE NotParsed

\* the column Conversation.chat: NULL or a text
Null == [null |-> TRUE, text |-> << >>]
Blob(tokens) == [null |-> FALSE, text |-> tokens]

\* models.Conversation.get_chat_data, lines 87-93
get_chat_data(chat) ==
    IF chat.null \/ chat.text = << >> THEN PyList(<< >>)
    ELSE IF json_loads(chat.text).ok THEN json_loads(chat.text).node
    ELSE PyList(<< >>)

\* models.Conversation.set_chat_data, lines 95-96: the new value of chat
set_chat_data(data) == Blob(json_dumps(data))

\* -------------------------------------------------------- the codec alone
MaxTurns == 2
Turns ==
    {Turn(role, parts) : role \in {"user", "model"},
                         parts \in {<<"hi">>, <<"primer", "hi">>, << >>}}
RECURSIVE TurnSeqs(_)
TurnSeqs(k) ==
    IF k = 0 THEN {<< >>}
    ELSE TurnSeqs(k - 1) \cup {Append(t, turn) : t \in TurnSeqs(k - 1), turn \in Turns}

\* what the column can hold besides the encoding of a turn list: NULL, the
\* empty text, a cut or garbled text, and JSON texts of other values
TurnTokens == json_dumps(PyList(<<Turn("user", <<"hi">>), Turn("model", <<"hello">>)>>))
OtherBlobs ==
    {Null, Blob(<< >>)}
    \cup {Blob(Take(TurnTokens, k)) : k \in {1, 5, Len(TurnTokens) - 1}}
    \cup {Blob(<<Token("garbage", "Traceback")>>),
          Blob(TurnTokens \o <<Punct("]")>>),
          Blob(<<Punct("null")>>),
          Blob(<<Token("number", "5")>>),
          Blob(<<Token("string", "hi")>>),
          Blob(json_dumps(PyDict(<<<<"role", PyStr("user")>>>>))),
          Blob(json_dumps(PyList(<<PyInt("1"), PyStr("hi")>>)))}

InitCodec ==
    /\ AtRest
    /\ fn_pc = "codec"
    /\ fn_in \in [data : {PyList(t) : t \in TurnSeqs(MaxTurns)}, chat : OtherBlobs,
                  stored : {FALSE}]
    /\ fn_out = << >>
    /\ requests = << >>

\* conversation.set_chat_data(data)
set_chat_data_call ==
    /\ fn_pc = "codec"
    /\ fn_pc' = "set_chat_data"
    /\ fn_in' = [fn_in EXCEPT !.chat = set_chat_data(fn_in.data), !.stored = TRUE]
    /\ UNCHANGED <<fn_out, resp, requests>>
    /\ UNCHANGED <<store_vars, ai_vars, chat_vars>>

\* conversation.get_chat_data()
get_chat_data_call ==
    /\ fn_pc \in {"codec", "set_chat_data"}
    /\ fn_pc' = "get_chat_data"
    /\ fn_out' = get_chat_data(fn_in.chat)
    /\ UNCHANGED <<fn_in, resp, requests>>
    /\ UNCHANGED <<store_vars, ai_vars, chat_vars>>

NextCodec == set_chat_data_call \/ get_chat_data_call
SpecCodec == InitCodec /\ [][NextCodec]_vars

\* -------------------------------------------------- properties of SpecCodec
\* C15: get_chat_data after set_chat_data(t) returns t -- the same turns in
\* the same order, each with its role and its parts in order
C15_CodecRoundTrip ==
    (fn_pc = "get_chat_data" /\ fn_in.stored) => fn_out = fn_in.data
C15_Witness ==
    /\ fn_pc = "get_chat_data"
    /\ fn_in.stored
    /\ fn_out = PyList(<<Turn("user", <<"primer", "hi">>), Turn("model", <<"hi">>)>>)

\* C16: get_chat_data of a column that does not hold the encoding of a turn
\* list (NULL, empty, cut, garbled, or the JSON text of another value)
\* returns the empty list
C16_CorruptBlobDecodesEmpty ==
    (fn_pc = "get_chat_data" /\ ~fn_in.stored) => fn_out = PyList(<< >>)

\* ---------------------------------------------------- the validator alone
MaxItems == 2
ItemLengths == {0, 40, 250, 350}
RECURSIVE ItemLists(_)
ItemLists(k) ==
    IF k = 0 THEN {<< >>}
    ELSE ItemLists(k - 1)
         \cup {Append(items, ai(len)) : items \in ItemLists(k - 1), len \in ItemLengths}
TenItems == [i \in 1..10 |-> ai(40)]
LateItem == <<ai(0), ai(0), ai(0), ai(0), ai(0), ai(40)>>
SomeEmpty == <<ai(0), ai(40), ai(0), ai(250), ai(40), ai(40), ai(40)>>
ManyFields ==
    {Missing, NotAList}
    \cup {List(items) : items \in ItemLists(MaxItems) \cup {TenItems, LateItem, SomeEmpty}}
FewFields == {Missing, List(<< >>), List(<<ai(40)>>)}
ParsedResults ==
    {Json("object", a, b, c) : a \in ManyFields, b \in FewFields, c \in FewFields}
    \cup {Json("object", a, b, c) : a \in FewFields, b \in ManyFields, c \in FewFields}
    \cup {Json("object", a, b, c) : a \in FewFields, b \in FewFields, c \in ManyFields}
    \cup {Value("array"), Value("keys_array"), Value("string"), Value("number")}

InitValidate ==
    /\ AtRest
    /\ fn_pc = "validate"
    /\ fn_in \in ParsedResults
    /\ fn_out = NoAnalysis
    /\ requests = << >>

\* validate_ai_response(result): it returns, or raises TypeError
validate_ai_response_call ==
    /\ fn_pc = "validate"
    /\ IF TypeError(fn_in)
       THEN fn_pc' = "TypeError" /\ fn_out' = NoAnalysis
       ELSE fn_pc' = "validate_ai_response" /\ fn_out' = validate_ai_response(fn_in)
    /\ UNCHANGED <<fn_in, resp, requests>>
    /\ UNCHANGED <<store_vars, ai_vars, chat_vars>>

NextValidate == validate_ai_response_call
SpecValidate == InitValidate /\ [][NextValidate]_vars

\* ----------------------------------------------- properties of SpecValidate
\* between low and high items, each non-empty and of at most cap characters
Clamped(items, low, high, cap) ==
    /\ Len(items) >= low
    /\ Len(items) <= high
    /\ \A i \in 1..Len(items) : items[i].len >= 1 /\ items[i].len <= cap
\* the field is missing, no list, or holds no non-empty item among its first count
EmptyField(field, count) ==
    \/ field.kind # "list"
    \/ \A i \in 1..Min(Len(field.items), count) : field.items[i].len = 0

\* C17: for every parsed output validate_ai_response returns, with 1..5
\* patterns of at most 200 characters, 1..3 insights of at most 300 and 1..5
\* suggested prompts of at most 150; a field that is missing, no list or
\* empty after clamping becomes the fixed default list of that field; ten
\* non-empty patterns become exactly five
C17_ValidatorClamps ==
    fn_pc # "validate" =>
        /\ fn_pc = "validate_ai_response"
        /\ Clamped(fn_out.patterns, 1, 5, 200)
        /\ Clamped(fn_out.insights, 1, 3, 300)
        /\ Clamped(fn_out.suggested_prompts, 1, 5, 150)
        /\ EmptyField(fn_in.patterns, 5) => fn_out.patterns = DefaultPatterns
        /\ EmptyField(fn_in.insights, 3) => fn_out.insights = DefaultInsights
        /\ EmptyField(fn_in.suggested_prompts, 5) => fn_out.suggested_prompts = DefaultPrompts
        /\ fn_in.patterns = List(TenItems) => Len(fn_out.patterns) = 5

\* the first count non-empty items of a list, each cut to cap characters
first_non_empty(items, count, cap) ==
    [i \in 1..Min(Len(Truthy(items)), count) |-> truncate(Truthy(items)[i], cap)]
\* the field of the output for a field of the input that is a list with a
\* non-empty item
DropsThenCounts(field, out, count, cap) ==
    (field.kind = "list" /\ Truthy(field.items) # << >>) =>
        out = first_non_empty(field.items, count, cap)

\* C29: validate_ai_response drops the empty items before it counts: every
\* field of the output is the first N non-empty items of the input list
\* (N = 5 patterns, 3 insights, 5 suggested prompts), so a list with a
\* non-empty item behind N empty ones does not become the default list
C29_DropsEmptyBeforeCount ==
    fn_pc = "validate_ai_response" =>
        /\ DropsThenCounts(fn_in.patterns, fn_out.patterns, 5, 200)
        /\ DropsThenCounts(fn_in.insights, fn_out.insights, 3, 300)
        /\ DropsThenCounts(fn_in.suggested_prompts, fn_out.suggested_prompts, 5, 150)

\* ======================================================== context builder
\* The primer is a text of a heading and one line per entry; the entry
\* texts are character sequences, sanitized by the chat sanitizer.
Context(text, lines) == [text |-> text, lines |-> lines]
EmptyContext == Context("", << >>)
NoActivity == Context("No recent journal activity to reference.", << >>)
Overview(lines) ==
    Context("Here's a brief overview of recent journal activity for context:", lines)

\* the line of an entry, lines 64-74: its day and its sanitized texts
ContextLine(entry) ==
    [date |-> entry.created_at,
     prompt |-> sanitize_journal_content_for_ai(entry.prompt, 50),
     answer |-> sanitize_journal_content_for_ai(entry.answer, 100)]
RECURSIVE ContextLines(_)
ContextLines(entries) ==
    IF entries = << >> THEN << >>
    ELSE IF ContextLine(Head(entries)).prompt # << >> /\ ContextLine(Head(entries)).answer # << >>
    THEN <<ContextLine(Head(entries))>> \o ContextLines(Tail(entries))
    ELSE ContextLines(Tail(entries))

\* the context without the limit of five lines
format_entries_unlimited(entries) ==
    IF entries = << >> THEN EmptyContext
    ELSE IF ContextLines(entries) = << >> THEN NoActivity
    ELSE Overview(ContextLines(entries))

\* chat.format_entries_for_initial_context, lines 57-83
format_entries_for_initial_context(entries) ==
    IF entries = << >> THEN EmptyContext
    ELSE IF ContextLines(entries) = << >> THEN NoActivity
    ELSE Overview(Take(ContextLines(entries), 5))

\* ---------------------------------------------- the context builder alone
MaxContext == 2
ContextEntry(prompt, answer, day) == [prompt |-> prompt, answer |-> answer, created_at |-> day]
ContextEntries ==
    {ContextEntry(prompt, answer, 1) :
        prompt \in {<< >>, <<" ">>, <<"x">>, <<"a", "@", "b", ".", "c", "o">>},
        answer \in {<< >>, <<" ", " ">>, <<"y">>, <<"c", "a", "l", "l", " ", "5", "5", "5", "1", "2", "3", "4", "5", "6", "7">>}}
RECURSIVE EntryLists(_)
EntryLists(k) ==
    IF k = 0 THEN {<< >>}
    ELSE EntryLists(k - 1)
         \cup {Append(entries, e) : entries \in EntryLists(k - 1), e \in ContextEntries}
SixEntries == [i \in 1..6 |-> ContextEntry(<<"x">>, <<"y">>, i)]
Repeat(c, n) == [i \in 1..n |-> c]
\* seven entries, newest first: a prompt of 60 characters, an answer of 120,
\* an entry without prompt, and an email address behind 48 characters
LongEntries ==
    <<ContextEntry(Repeat("x", 60), <<"y">>, 7),
      ContextEntry(<<"x">>, Repeat("y", 120), 6),
      ContextEntry(<< >>, <<"y">>, 5),
      ContextEntry(Repeat("x", 47) \o <<" ", "a", "@", "b", ".", "c", "o">>, <<"y">>, 4),
      ContextEntry(<<"x">>, <<"y">>, 3),
      ContextEntry(<<"x">>, <<" ">>, 2),
      ContextEntry(<<"x">>, <<"y">>, 1),
      ContextEntry(<<"x">>, <<"y">>, 0)>>

InitContext ==
    /\ AtRest
    /\ fn_pc = "context"
    /\ fn_in \in EntryLists(MaxContext) \cup {SixEntries, LongEntries}
    /\ fn_out = EmptyContext
    /\ requests = << >>

format_entries_for_initial_context_call ==
    /\ fn_pc = "context"
    /\ fn_pc' = "format_entries_for_initial_context"
    /\ fn_out' = format_entries_for_initial_context(fn_in)
    /\ UNCHANGED <<fn_in, resp, requests>>
    /\ UNCHANGED <<store_vars, ai_vars, chat_vars>>

NextContext == format_entries_for_initial_context_call
SpecContext == InitContext /\ [][NextContext]_vars

\* ------------------------------------------------ properties of SpecContext
\* the entry's prompt and answer are both non-empty once sanitized
Qualifies(entry) ==
    /\ sanitize_journal_content_for_ai(entry.prompt, 50) # << >>
    /\ sanitize_journal_content_for_ai(entry.answer, 100) # << >>

\* C18: the context built from no entries, or from entries none of which
\* qualifies, is the sentence "No recent journal activity to reference."
C18_NoEntriesGiveFixedSentence ==
    (fn_pc = "format_entries_for_initial_context"
     /\ \A i \in 1..Len(fn_in) : ~Qualifies(fn_in[i])) =>
        fn_out = NoActivity

\* the positions of the entries of the input that qualify, in input order
RECURSIVE QualifyingPositions(_, _)
QualifyingPositions(entries, i) ==
    IF i > Len(entries) THEN << >>
    ELSE IF Qualifies(entries[i]) THEN <<i>> \o QualifyingPositions(entries, i + 1)
    ELSE QualifyingPositions(entries, i + 1)

\* C31: the initial context has at most 5 entry lines; they are the lines of
\* the first five entries of the input whose sanitized prompt and sanitized
\* answer are both non-empty, in the order of the input; and each line holds
\* a sanitized prompt of 1..50 characters and a sanitized answer of 1..100
C31_ContextLinesBounded ==
    fn_pc = "format_entries_for_initial_context" =>
        LET kept == QualifyingPositions(fn_in, 1)
        IN /\ Len(fn_out.lines) <= 5
           /\ Len(fn_out.lines) = Min(Len(kept), 5)
           /\ \A k \in DOMAIN fn_out.lines :
                 /\ fn_out.lines[k].date = fn_in[kept[k]].created_at
                 /\ fn_out.lines[k].prompt =
                       sanitize_journal_content_for_ai(fn_in[kept[k]].prompt, 50)
                 /\ fn_out.lines[k].answer =
                       sanitize_journal_content_for_ai(fn_in[kept[k]].answer, 100)
                 /\ Len(fn_out.lines[k].prompt) \in 1..50
                 /\ Len(fn_out.lines[k].answer) \in 1..100
\* of eight entries, two of which do not qualify, five lines are kept: the
\* first has a prompt cut to 50 characters, the second an answer cut to 100,
\* and the entry without prompt is left out
C31_Witness ==
    /\ fn_pc = "format_entries_for_initial_context"
    /\ fn_in = LongEntries
    /\ Len(fn_out.lines) = 5
    /\ Len(fn_out.lines[1].prompt) = 50
    /\ Len(fn_out.lines[2].answer) = 100
    /\ fn_out.lines[3].date = 4
    /\ fn_out.lines[5].date = 1

\* ========================================================== conversations
\* chat.py, lines 13-14
MAX_JOURNAL_ENTRIES_FOR_CONTEXT == 5
JOURNAL_CONTEXT_DAYS == 30

\* models.Conversation: chat and title default to NULL, deleted_at to NULL
NoTitle == ""
NewConversation(user_id) ==
    [user_id |-> user_id, chat |-> Null, title |-> NoTitle, deleted_at |-> NoDate]


\* a turn read back from the column: its role and the texts of its parts
TurnRole(turn) == turn.value[1][2].value[1]
TurnParts(turn) ==
    [k \in DOMAIN turn.value[2][2].value |-> turn.value[2][2].value[k].value[1]]

\* ------------------------------------------------------ the journal context
\* the characters of the texts the journal rows hold
chars(text) ==
    CASE text = "" -> << >>
      [] text = "p1" -> <<"p", "1">>
      [] text = "p2" -> <<"p", "2">>
      [] text = "a1" -> <<"a", "@", "b", ".", "c", "o">>
      [] OTHER -> <<"x">>

\* "".join(chars)
RECURSIVE join(_)
join(text) == IF text = << >> THEN "" ELSE Head(text) \o join(Tail(text))

\* lines 72-74: the f-string of one entry
render_line(line) ==
    "- On " \o ToString(line.date) \o ", topic: '" \o join(line.prompt)
        \o "'. Response: '" \o join(line.answer) \o "'"
\* "\n".join(lines)
RECURSIVE join_lines(_)
join_lines(lines) ==
    IF lines = << >> THEN ""
    ELSE IF Len(lines) = 1 THEN render_line(lines[1])
    ELSE render_line(lines[1]) \o "\n" \o join_lines(Tail(lines))
\* lines 59-83: the string format_entries_for_initial_context returns
render(context) ==
    IF context.lines = << >> THEN context.text
    ELSE context.text \o "\n" \o join_lines(context.lines)
             \o "\n\nNow, how can I help you today?"

\* get_journal_context_for_new_chat, lines 152-158: the ids the query returns
recent_entries ==
    Take(newest_first({i \in DOMAIN journal :
                          /\ journal[i].user_id = current_user
                          /\ journal[i].created_at >= today - JOURNAL_CONTEXT_DAYS
                          /\ journal[i].deleted_at = NoDate
                          /\ journal[i].answer # ""}),
         MAX_JOURNAL_ENTRIES_FOR_CONTEXT)

\* the rows with these ids as the context builder reads them
entries_of(ids) ==
    [k \in DOMAIN ids |-> ContextEntry(chars(journal[ids[k]].prompt),
                                       chars(journal[ids[k]].answer),
                                       journal[ids[k]].created_at)]

\* chat.get_journal_context_for_new_chat, lines 147-164
get_journal_context_for_new_chat ==
    render(format_entries_for_initial_context(entries_of(recent_entries)))

\* ------------------------------------------------------------ post_message
\* the JSON body of a chat message; conversation_id is absent or one value
MessageData(message, conversation_id) ==
    [message |-> message, conversation_id |-> conversation_id]
\* len(message) > 2000
TooLong(message) == message = "long"
\* bleach.clean(message, tags=[], strip=True)
bleach_clean(message) == IF message = "<b>" THEN "" ELSE message

\* chat.validate_message_input, lines 16-38: the error, or "" and the data
validate_message_input(data) ==
    IF data.message = "" THEN [error |-> "Message cannot be empty", message |-> ""]
    ELSE IF TooLong(data.message)
    THEN [error |-> "Message too long (maximum 2000 characters)", message |-> ""]
    ELSE IF bleach_clean(data.message) = ""
    THEN [error |-> "Message contains no valid content", message |-> ""]
    ELSE IF data.conversation_id # << >> /\ data.conversation_id[1] <= 0
    THEN [error |-> "Invalid conversation ID", message |-> ""]
    ELSE [error |-> "", message |-> bleach_clean(data.message)]

\* the caller's row with this id, soft-deleted or not
find_conversation_unfiltered(conversation_id, user_id) ==
    /\ conversation_id \in DOMAIN conversation
    /\ conversation[conversation_id].user_id = user_id

\* the query of post_message (lines 336-340), of the history and of the title
\* update: the caller's live row with this id
find_conversation(conversation_id, user_id) ==
    /\ conversation_id \in DOMAIN conversation
    /\ conversation[conversation_id].user_id = user_id
    /\ conversation[conversation_id].deleted_at = NoDate

\* the parts of the user turn with the context on every message
current_message_parts_every_message(is_new_chat, message) ==
    IF get_journal_context_for_new_chat # ""
    THEN <<get_journal_context_for_new_chat, message>>
    ELSE <<message>>

\* post_message, lines 346-365: the parts of the user turn handed to the AI
current_message_parts(is_new_chat, message) ==
    IF is_new_chat /\ get_journal_context_for_new_chat # ""
    THEN <<get_journal_context_for_new_chat, message>>
    ELSE <<message>>

\* the history started again from the turns of this message
chat_history_restarted(chat_history, message, text) ==
    <<Turn("user", <<message>>), Turn("model", <<text>>)>>

\* the history with the user turn only
chat_history_without_answer(chat_history, message, text) ==
    chat_history \o <<Turn("user", <<message>>)>>

\* post_message, lines 373-374: the two appends to chat_history
chat_history_after(chat_history, message, text) ==
    chat_history \o <<Turn("user", <<message>>), Turn("model", <<text>>)>>

\* chat.call_gemini_api, lines 85-127: the text returned when the service
\* answers the attempts with these outcomes
RECURSIVE call_gemini_api_from(_, _, _)
call_gemini_api_from(attempt, outcomes, retries) ==
    IF attempt > retries THEN SorryMessage
    ELSE LET step == call_gemini_api_step(attempt, outcomes[attempt + 1], retries)
         IN IF step.done THEN step.text
            ELSE call_gemini_api_from(attempt + 1, outcomes, retries)
call_gemini_api(outcomes) == call_gemini_api_from(0, outcomes, DefaultRetries)

\* the response of post_message: the JSON of lines 386-391 on success
PostReply(status, error, id, is_new_chat, message, text) ==
    [op |-> "post_message", status |-> status, error |-> error, valid |-> FALSE,
     id |-> id, is_new_conversation |-> is_new_chat,
     user_message_echo |-> message, ai_message |-> text]
\* a request that is not answered with that JSON; id is the one it named
PostError(status, error, data) ==
    PostReply(status, error,
              IF data.conversation_id = << >> THEN 0 ELSE data.conversation_id[1],
              FALSE, "", "")

\* chat.post_message, lines 287-398.  setup: is the API key set and does genai
\* accept it; outcomes: what the service answers to each attempt; db_error:
\* does the commit raise
post_message(data, setup, outcomes, db_error) ==
    IF ~is_authenticated
    THEN /\ resp' = PostError(302, "login required", data)
         /\ sent' = << >>
         /\ UNCHANGED <<store_vars, ai_vars, conversation, fn_vars>>
    ELSE
    LET validated == validate_message_input(data)
        is_new_chat == data.conversation_id = << >>
        found == is_new_chat \/ find_conversation(data.conversation_id[1], current_user)
        early == IF validated.error # "" THEN PostError(400, validated.error, data)
                 ELSE IF ~setup.api_key
                 THEN PostError(503, "Chat service temporarily unavailable", data)
                 ELSE IF ~setup.client_ok
                 THEN PostError(503, "Chat service initialization failed", data)
                 ELSE IF ~found
                 THEN PostError(404, "Conversation not found or access denied", data)
                 ELSE PostError(0, "", data)
    IN IF early.status # 0
       THEN /\ resp' = early
            /\ sent' = << >>
            /\ UNCHANGED <<store_vars, ai_vars, conversation, fn_vars>>
       ELSE
       LET in_session == IF is_new_chat
                         THEN Append(conversation, NewConversation(current_user))
                         ELSE conversation
           id == IF is_new_chat THEN Len(conversation) + 1 ELSE data.conversation_id[1]
           chat_history == IF is_new_chat THEN PyList(<< >>)
                           ELSE get_chat_data(conversation[id].chat)
           \* list(chat_history) and chat_history.append need a list
           raises == chat_history.type # "list"
           contents_for_ai ==
               Append(chat_history.value,
                      Turn("user", current_message_parts(is_new_chat, validated.message)))
           ai_response_text == call_gemini_api(outcomes)
           saved == [in_session EXCEPT ![id].chat =
                        set_chat_data(PyList(chat_history_after(chat_history.value,
                                                                validated.message,
                                                                ai_response_text)))]
       IN IF raises
          THEN /\ resp' = PostError(500, "Failed to process message. Please try again.", data)
               /\ sent' = << >>
               /\ UNCHANGED <<store_vars, ai_vars, conversation, fn_vars>>
          ELSE /\ sent' = contents_for_ai
               /\ conversation' = session_end(conversation, saved, ~db_error)
               /\ resp' = IF db_error
                          THEN PostError(500, "Failed to process message. Please try again.", data)
                          ELSE PostReply(200, "", id, is_new_chat, validated.message,
                                         ai_response_text)
               /\ UNCHANGED <<store_vars, ai_vars, fn_vars>>

\* ------------------------------------------------- the other chat handlers
\* paginate(page, per_page, error_out=False): the items of the page
paginate(items, page, per_page) ==
    IF (page - 1) * per_page >= Len(items) THEN << >>
    ELSE SubSeq(items, (page - 1) * per_page + 1, Min(page * per_page, Len(items)))

\* the ids in a set, largest first
RECURSIVE descending(_)
descending(ids) ==
    IF ids = {} THEN << >>
    ELSE <<Largest(ids)>> \o descending(ids \ {Largest(ids)})

\* chat.get_conversations, lines 166-236: the page of the caller's live
\* conversations (all updated on the same day, listed by id)
get_conversations(page, per_page) ==
    /\ resp' = IF ~is_authenticated THEN Unauthorized("get_conversations")
               ELSE LET found == descending({id \in DOMAIN conversation :
                                                /\ conversation[id].user_id = current_user
                                                /\ conversation[id].deleted_at = NoDate})
                    IN Reply("get_conversations", 200, "", 0,
                             paginate(found, IF page < 1 THEN 1 ELSE page,
                                      IF per_page < 1 \/ per_page > 50 THEN 20 ELSE per_page),
                             Len(found))
    /\ sent' = << >>
    /\ UNCHANGED <<store_vars, ai_vars, conversation, fn_vars>>

\* lines 258-272: the history without the context parts of the user turns
RECURSIVE cleaned_history(_)
cleaned_history(chat_history) ==
    IF chat_history = << >> THEN << >>
    ELSE LET message == Head(chat_history)
             parts == TurnParts(message)
         IN IF TurnRole(message) = "user"
            THEN IF parts = << >> THEN cleaned_history(Tail(chat_history))
                 ELSE <<Turn("user", <<parts[Len(parts)]>>)>>
                          \o cleaned_history(Tail(chat_history))
            ELSE <<message>> \o cleaned_history(Tail(chat_history))

\* chat.get_single_conversation_history, lines 238-285
get_single_conversation_history(conversation_id) ==
    /\ resp' = IF ~is_authenticated THEN Unauthorized("get_single_conversation_history")
               ELSE IF conversation_id <= 0
               THEN Reply("get_single_conversation_history", 400, "Invalid conversation ID",
                          conversation_id, << >>, 0)
               ELSE IF ~find_conversation(conversation_id, current_user)
               THEN Reply("get_single_conversation_history", 404,
                          "Conversation not found or access denied", conversation_id, << >>, 0)
               ELSE Reply("get_single_conversation_history", 200, "", conversation_id,
                          <<conversation_id>>,
                          Len(cleaned_history(
                                 get_chat_data(conversation[conversation_id].chat).value)))
    /\ sent' = << >>
    /\ UNCHANGED <<store_vars, ai_vars, conversation, fn_vars>>

\* the query of delete_conversation, lines 410-413: the caller's row with this
\* id, soft-deleted or not
find_conversation_to_delete(conversation_id, user_id) ==
    /\ conversation_id \in DOMAIN conversation
    /\ conversation[conversation_id].user_id = user_id

\* delete_conversation stamping deleted_at on every request
delete_conversation_restamping(conversation_id) ==
    IF ~is_authenticated
    THEN /\ resp' = Unauthorized("delete_conversation")
         /\ sent' = << >>
         /\ UNCHANGED <<store_vars, ai_vars, conversation, fn_vars>>
    ELSE IF conversation_id <= 0
    THEN /\ resp' = Reply("delete_conversation", 400, "Invalid conversation ID",
                          conversation_id, << >>, 0)
         /\ sent' = << >>
         /\ UNCHANGED <<store_vars, ai_vars, conversation, fn_vars>>
    ELSE IF ~find_conversation_to_delete(conversation_id, current_user)
    THEN /\ resp' = Reply("delete_conversation", 404,
                          "Conversation not found or access denied", conversation_id, << >>, 0)
         /\ sent' = << >>
         /\ UNCHANGED <<store_vars, ai_vars, conversation, fn_vars>>
    ELSE /\ conversation' = [conversation EXCEPT ![conversation_id].deleted_at = today]
         /\ resp' = Reply("delete_conversation", 200, "", conversation_id, << >>, 0)
         /\ sent' = << >>
         /\ UNCHANGED <<store_vars, ai_vars, fn_vars>>

\* chat.delete_conversation, lines 400-442
delete_conversation(conversation_id) ==
    IF ~is_authenticated
    THEN /\ resp' = Unauthorized("delete_conversation")
         /\ sent' = << >>
         /\ UNCHANGED <<store_vars, ai_vars, conversation, fn_vars>>
    ELSE IF conversation_id <= 0
    THEN /\ resp' = Reply("delete_conversation", 400, "Invalid conversation ID",
                          conversation_id, << >>, 0)
         /\ sent' = << >>
         /\ UNCHANGED <<store_vars, ai_vars, conversation, fn_vars>>
    ELSE IF ~find_conversation_to_delete(conversation_id, current_user)
    THEN /\ resp' = Reply("delete_conversation", 404,
                          "Conversation not found or access denied", conversation_id, << >>, 0)
         /\ sent' = << >>
         /\ UNCHANGED <<store_vars, ai_vars, conversation, fn_vars>>
    ELSE IF conversation[conversation_id].deleted_at # NoDate
    THEN /\ resp' = Reply("delete_conversation", 200, "Conversation was already deleted",
                          conversation_id, << >>, 0)
         /\ sent' = << >>
         /\ UNCHANGED <<store_vars, ai_vars, conversation, fn_vars>>
    ELSE /\ conversation' = [conversation EXCEPT ![conversation_id].deleted_at = today]
         /\ resp' = Reply("delete_conversation", 200, "", conversation_id, << >>, 0)
         /\ sent' = << >>
         /\ UNCHANGED <<store_vars, ai_vars, fn_vars>>

\* the titles a request carries: none ("-"), blank, one of 1..100 characters
\* and one of more than 100
Titles == {"-", "", "t", "long"}

\* chat.update_conversation_title, lines 444-487
update_conversation_title(conversation_id, title) ==
    IF ~is_authenticated
    THEN /\ resp' = Unauthorized("update_conversation_title")
         /\ sent' = << >>
         /\ UNCHANGED <<store_vars, ai_vars, conversation, fn_vars>>
    ELSE
    LET result ==
            IF conversation_id <= 0
            THEN Reply("update_conversation_title", 400, "Invalid conversation ID",
                       conversation_id, << >>, 0)
            ELSE IF title = "-"
            THEN Reply("update_conversation_title", 400, "Title is required",
                       conversation_id, << >>, 0)
            ELSE IF title = ""
            THEN Reply("update_conversation_title", 400, "Title cannot be empty",
                       conversation_id, << >>, 0)
            ELSE IF title = "long"
            THEN Reply("update_conversation_title", 400,
                       "Title too long (maximum 100 characters)", conversation_id, << >>, 0)
            ELSE IF ~find_conversation(conversation_id, current_user)
            THEN Reply("update_conversation_title", 404,
                       "Conversation not found or access denied", conversation_id, << >>, 0)
            ELSE Reply("update_conversation_title", 200, "", conversation_id, << >>, 0)
    IN /\ resp' = result
       /\ conversation' = IF result.status = 200
                          THEN [conversation EXCEPT ![conversation_id].title = title]
                          ELSE conversation
       /\ sent' = << >>
       /\ UNCHANGED <<store_vars, ai_vars, fn_vars>>

\* --------------------------------------------------- the reads of the journal
\* the caller's live rows, newest first
live_entries ==
    newest_first({i \in DOMAIN journal : /\ journal[i].user_id = current_user
                                         /\ journal[i].deleted_at = NoDate})

\* journal.get_all_entries, lines 242-290
get_all_entries(page, per_page) ==
    /\ resp' = IF ~is_authenticated THEN Unauthorized("get_all_entries")
               ELSE Reply("get_all_entries", 200, "", 0,
                          paginate(live_entries, IF page < 1 THEN 1 ELSE page,
                                   IF per_page < 1 \/ per_page > 50 THEN 10 ELSE per_page),
                          Len(live_entries))
    /\ sent' = << >>
    /\ UNCHANGED <<store_vars, ai_vars, conversation, fn_vars>>

\* journal.get_entries_by_tag, lines 292-344.  The tag column is not part of
\* the rows: tagged is the set of rows that carry the requested tag
get_entries_by_tag(clean_tag, tagged, page, per_page) ==
    /\ resp' = IF ~is_authenticated THEN Unauthorized("get_entries_by_tag")
               ELSE IF clean_tag = ""
               THEN Reply("get_entries_by_tag", 400, "Invalid tag name", 0, << >>, 0)
               ELSE LET found == newest_first({i \in tagged :
                                                  /\ journal[i].user_id = current_user
                                                  /\ journal[i].deleted_at = NoDate})
                    IN Reply("get_entries_by_tag", 200, "", 0,
                             paginate(found, IF page < 1 THEN 1 ELSE page,
                                      IF per_page < 1 \/ per_page > 50 THEN 10 ELSE per_page),
                             Len(found))
    /\ sent' = << >>
    /\ UNCHANGED <<store_vars, ai_vars, conversation, fn_vars>>

\* journal.get_single_entry, lines 346-377
get_single_entry(entry_id) ==
    /\ resp' = IF ~is_authenticated THEN Unauthorized("get_single_entry")
               ELSE IF entry_id <= 0
               THEN Reply("get_single_entry", 400, "Invalid entry ID", entry_id, << >>, 0)
               ELSE IF ~find_entry(entry_id, current_user)
               THEN Reply("get_single_entry", 404, "Entry not found or access denied",
                          entry_id, << >>, 0)
               ELSE Reply("get_single_entry", 200, "", entry_id, <<entry_id>>, 1)
    /\ sent' = << >>
    /\ UNCHANGED <<store_vars, ai_vars, conversation, fn_vars>>

\* analytics.get_analytics_summary, lines 424-476: total_entries and the rows
\* of the last 30 days
get_analytics_summary ==
    /\ resp' = IF ~is_authenticated THEN Unauthorized("get_analytics_summary")
               ELSE LET total_entries == Len(live_entries)
                        recent_entries_30 ==
                            {i \in DOMAIN journal : /\ journal[i].user_id = current_user
                                                    /\ journal[i].deleted_at = NoDate
                                                    /\ journal[i].created_at >= today - 30}
                    IN Reply("get_analytics_summary", 200, "", 0,
                             IF total_entries = 0 THEN << >>
                             ELSE descending(recent_entries_30),
                             total_entries)
    /\ sent' = << >>
    /\ UNCHANGED <<store_vars, ai_vars, conversation, fn_vars>>

\* ------------------------------------------------ the chat and its journal
MaxMessages == 3

\* the number of turns stored in the conversation table
RECURSIVE stored_turns(_)
stored_turns(rows) ==
    IF rows = << >> THEN 0
    ELSE Len(get_chat_data(Head(rows).chat).value) + stored_turns(Tail(rows))

\* what the service answers to the attempts of one call: at once, after a
\* failed attempt, never
Hello == ChatResponse(FALSE, TRUE, "Hello.")
ChatRuns ==
    {<<Hello, Hello, Hello>>,
     <<ChatRaise(PlainError), Hello, Hello>>,
     <<ChatRaise(PlainError), ChatRaise(PlainError), ChatRaise(PlainError)>>}
ReadySetup == [api_key |-> TRUE, client_ok |-> TRUE, error |-> PlainError]

\* the chat messages tried: request, environment, service and store
PostRequest(data, setup, outcomes, db_error) ==
    [data |-> data, setup |-> setup, outcomes |-> outcomes, db_error |-> db_error]
ConversationIds == {<< >>} \cup {<<id>> : id \in 0..MaxMessages}
PostRequests ==
    {PostRequest(MessageData(message, id), ReadySetup, outcomes, FALSE) :
        message \in {"hi"}, id \in ConversationIds, outcomes \in ChatRuns}
    \cup {PostRequest(MessageData(message, << >>), ReadySetup, <<Hello, Hello, Hello>>, FALSE) :
             message \in {"", "<b>", "long"}}
    \cup {PostRequest(MessageData("hi", id), setup, <<Hello, Hello, Hello>>, FALSE) :
             id \in ConversationIds, setup \in ClientSetups}
    \cup {PostRequest(MessageData("hi", id), ReadySetup, <<Hello, Hello, Hello>>, TRUE) :
             id \in ConversationIds}

Pages == {<<0, 0>>, <<2, 1>>}
TagUpdates ==
    {UpdateRequest("-", "-", "-"), UpdateRequest("-", "-", "t"), UpdateRequest("", "-", "t")}

\* a store the requests can leave behind: ann and bob are registered, ann
\* wrote two entries (one older than the context window) and bob one, each
\* had one exchange with the assistant, and ann is logged in
InitChat ==
    /\ today = MaxDay + JOURNAL_CONTEXT_DAYS
    /\ users = <<[NewUser("ann", "ann@x.io", 0) EXCEPT
                     !.current_streak = 1, !.longest_streak = 1,
                     !.last_activity_date = MaxDay + JOURNAL_CONTEXT_DAYS - 1],
                 [NewUser("bob", "bob@x.io", 0) EXCEPT
                     !.current_streak = 1, !.longest_streak = 1,
                     !.last_activity_date = MaxDay + JOURNAL_CONTEXT_DAYS - 1]>>
    /\ hist_max = <<1, 1>>
    /\ journal = <<NewJournal(1, "p1", "a1", "text", MaxDay - 1),
                   NewJournal(1, "p2", "a1", "text", MaxDay + JOURNAL_CONTEXT_DAYS - 1),
                   NewJournal(2, "p1", "a1", "text", MaxDay + JOURNAL_CONTEXT_DAYS - 1)>>
    /\ current_user = 1
    /\ conversation =
          <<[NewConversation(2) EXCEPT
                !.chat = set_chat_data(PyList(<<Turn("user", <<"hi">>),
                                                Turn("model", <<"Hello.">>)>>))],
            [NewConversation(1) EXCEPT
                !.chat = set_chat_data(PyList(<<Turn("user", <<"more">>),
                                                Turn("model", <<"Hello.">>)>>))]>>
    /\ sent = << >>
    /\ resp = Response("none", 0, "")
    /\ AIIdle
    /\ FnIdle

NextChat ==
    \/ \E request \in PostRequests :
          /\ stored_turns(conversation) + 2 <= 2 * MaxMessages
          /\ post_message(request.data, request.setup, request.outcomes, request.db_error)
    \/ \E page \in Pages : get_conversations(page[1], page[2])
    \/ \E id \in 0..MaxMessages : get_single_conversation_history(id)
    \/ \E id \in 0..MaxMessages : delete_conversation(id)
    \/ \E id \in 0..MaxMessages, title \in Titles : update_conversation_title(id, title)
    \/ \E entry_id \in 0..MaxEntries, data \in TagUpdates : update_entry(entry_id, data)
    \/ \E entry_id \in 0..MaxEntries : delete_entry(entry_id)
    \/ \E page \in Pages : get_all_entries(page[1], page[2])
    \/ \E clean_tag \in {"", "t"}, tagged \in {DOMAIN journal, {1}}, page \in Pages :
          get_entries_by_tag(clean_tag, tagged, page[1], page[2])
    \/ \E entry_id \in 0..MaxEntries : get_single_entry(entry_id)
    \/ \E days \in {0, 1, 30, 365, 366} : get_mood_trends(days)
    \/ get_analytics_summary

SpecChat == InitChat /\ [][NextChat]_vars

\* ------------------------------------------------- properties of SpecChat
\* the turns a conversation row stores
stored(row) == get_chat_data(row.chat).value
\* the request just answered is a message stored in this conversation
Posted(reply, id) ==
    reply.op = "post_message" /\ reply.status = 200 /\ reply.id = id

\* C13: conversations are append-only.  A step that changes what a
\* conversation stores is a successful post_message on it: the turns stored
\* before are an unchanged prefix of the turns stored after, and exactly two
\* turns are appended, the user turn of the message and then the model turn
\* of the answer (a canned message included); no other request changes the
\* stored turns
C13_ConversationsAppendOnly ==
    [][\A id \in DOMAIN conversation :
          /\ id \in DOMAIN conversation'
          /\ IF conversation'[id].chat = conversation[id].chat
             THEN ~Posted(resp', id)
             ELSE /\ Len(stored(conversation'[id])) >= Len(stored(conversation[id]))
                  /\ SubSeq(stored(conversation'[id]), 1, Len(stored(conversation[id])))
                        = stored(conversation[id])
                  /\ Posted(resp', id)
                  /\ stored(conversation'[id])
                        = stored(conversation[id])
                             \o <<Turn("user", <<resp'.user_message_echo>>),
                                  Turn("model", <<resp'.ai_message>>)>>]_vars
C13_Witness ==
    /\ Posted(resp, 2)
    /\ ~resp.is_new_conversation
    /\ resp.ai_message = TechnicalMessage
    /\ stored(conversation[2]) = <<Turn("user", <<"more">>), Turn("model", <<"Hello.">>),
                                   Turn("user", <<"hi">>), Turn("model", <<TechnicalMessage>>)>>

\* the context built from the rows with these ids
PrimerOf(ids) == render(format_entries_for_initial_context(entries_of(newest_first(ids))))
\* every text that is the journal context of some rows of the journal
Primers == {PrimerOf(ids) : ids \in SUBSET DOMAIN journal} \ {""}

\* C14: the journal context is handed to the chat model only as the first
\* of the two parts of the user turn of the first message of a new
\* conversation (the contents are that one turn), never on a message to an
\* existing conversation, and no stored turn has it as a part
C14_PrimerOnlyOnFirstMessage ==
    LET primers == Primers
    IN /\ \A k \in DOMAIN sent : \A j \in DOMAIN TurnParts(sent[k]) :
             TurnParts(sent[k])[j] \in primers =>
                /\ Len(sent) = 1
                /\ TurnRole(sent[k]) = "user"
                /\ j = 1
                /\ Len(TurnParts(sent[k])) = 2
                /\ resp.op = "post_message"
                /\ resp.status = 200 => resp.is_new_conversation
       /\ \A id \in DOMAIN conversation :
             LET turns == stored(conversation[id])
             IN \A k \in DOMAIN turns : \A j \in DOMAIN TurnParts(turns[k]) :
                   TurnParts(turns[k])[j] \notin primers
C14_Witness ==
    /\ Len(sent) = 1
    /\ TurnParts(sent[1]) = <<PrimerOf({2}), "hi">>
    /\ PrimerOf({2}) \in Primers
    /\ resp.op = "post_message" /\ resp.status = 200 /\ resp.is_new_conversation
    /\ stored(conversation[resp.id]) = <<Turn("user", <<"hi">>), Turn("model", <<"Hello.">>)>>

\* the row with this id is soft-deleted
EntryGone(id) == id \in DOMAIN journal /\ journal[id].deleted_at # NoDate
ConversationGone(id) == id \in DOMAIN conversation /\ conversation[id].deleted_at # NoDate
\* the caller's rows that are not soft-deleted
LiveEntries == {i \in DOMAIN journal : journal[i].user_id = current_user /\ ~EntryGone(i)}

\* C20: a soft-deleted row is excluded from every read.  A soft-deleted
\* entry is not found by get_single_entry, update_entry and delete_entry,
\* is in no list of entries (get_all_entries, get_entries_by_tag,
\* mood-trends, summary), is not counted by the query of analyze and
\* contributes to no chat context; a soft-deleted conversation is not listed
\* by get_conversations and is not found by the history, by post_message and
\* by the title update (a request rejected before the row is looked up, for
\* its body or for the configuration of the service, is answered 400 or 503)
C20_SoftDeletedExcluded ==
    [][/\ (resp'.op = "get_single_entry" /\ EntryGone(resp'.id)) => resp'.status = 404
       /\ \A id \in DOMAIN journal :
             EntryGone(id) =>
                /\ \A data \in TagUpdates \ {UpdateRequest("-", "-", "-")} :
                      update_entry(id, data) => resp'.status = 404
                /\ delete_entry(id) => resp'.status = 404
       /\ resp'.op \in {"get_all_entries", "get_entries_by_tag", "get_mood_trends",
                        "get_analytics_summary"} =>
             /\ \A k \in DOMAIN resp'.rows : resp'.rows[k] \in LiveEntries
             /\ resp'.count <= Cardinality(LiveEntries)
       /\ \A days \in {1, 30, 365} : qualifying(days, 50) <= Cardinality(LiveEntries)
       /\ (resp'.op = "post_message" /\ Len(sent') > 0 /\ Len(TurnParts(Last(sent'))) > 1) =>
             TurnParts(Last(sent'))[1] \in {PrimerOf(ids) : ids \in SUBSET LiveEntries}
       /\ resp'.op = "get_conversations" =>
             \A k \in DOMAIN resp'.rows : ~ConversationGone(resp'.rows[k])
       /\ (resp'.op = "get_single_conversation_history" /\ ConversationGone(resp'.id)) =>
             resp'.status = 404
       /\ (resp'.op = "update_conversation_title" /\ ConversationGone(resp'.id)) =>
             resp'.status \in {400, 404} /\ conversation' = conversation
       /\ (resp'.op = "post_message" /\ ConversationGone(resp'.id)) =>
             resp'.status \in {400, 503, 404} /\ conversation' = conversation]_vars
C20_Witness ==
    /\ EntryGone(2)
    /\ ConversationGone(2)
    /\ resp.op = "post_message"
    /\ resp.id = 2
    /\ resp.status = 404

\* C32: a post_message that fails stores nothing.  When the request is not
\* answered 200 -- the conversation id is unknown, another user's or
\* soft-deleted (404), or the commit raised (500), also for a new chat whose
\* row had been added and flushed -- no conversation row is added and every
\* conversation stores what it stored before
C32_FailedPostStoresNothing ==
    [][(resp'.op = "post_message" /\ resp'.status # 200) =>
          /\ conversation' = conversation
          /\ UNCHANGED <<users, journal>>
          /\ (/\ resp'.id > 0
              /\ resp'.status \notin {400, 503}
              /\ \/ resp'.id \notin DOMAIN conversation
                 \/ conversation[resp'.id].user_id # current_user
                 \/ conversation[resp'.id].deleted_at # NoDate) => resp'.status = 404]_vars
\* the commit of a message that opens a new conversation raised: the answer
\* is 500, the context had been sent to the model, and the two conversations
\* of before are all there is
C32_Witness ==
    /\ resp.op = "post_message"
    /\ resp.status = 500
    /\ resp.id = 0
    /\ Len(sent) = 1
    /\ Len(conversation) = 2
    /\ \A id \in DOMAIN conversation : Len(stored(conversation[id])) = 2

\* C36: the turns a conversation stores are an even number, alternate user,
\* model, user, model from a user turn on, and each has exactly one part,
\* a non-empty text
C36_TurnsAlternate ==
    \A id \in DOMAIN conversation :
        LET turns == stored(conversation[id])
        IN /\ Len(turns) % 2 = 0
           /\ \A k \in DOMAIN turns :
                 /\ TurnRole(turns[k]) = IF k % 2 = 1 THEN "user" ELSE "model"
                 /\ Len(TurnParts(turns[k])) = 1
                 /\ TurnParts(turns[k])[1] # ""
\* a conversation with two exchanges, the second answered with the canned
\* text of a failed call
C36_Witness ==
    \E id \in DOMAIN conversation :
        /\ Len(stored(conversation[id])) = 4
        /\ TurnParts(stored(conversation[id])[4])[1] = TechnicalMessage
        /\ TurnParts(stored(conversation[id])[3])[1] = "hi"

\* ==================================================== registration alone
MaxUsers == 3
\* every pairing of the usernames and the emails, and one form failing each
\* validation rule
AllRegisterForms ==
    {<<username, email, 8>> : username \in Usernames, email \in Emails}
    \cup {<<"al", "ann@x.io", 8>>, <<"ann", "nomail", 8>>, <<"bob", "bob@x.io", 7>>}

InitRegister ==
    /\ AtRest
    /\ FnIdle

NextRegister ==
    \/ Tick
    \/ \E form \in AllRegisterForms :
          /\ Len(users) < MaxUsers
          /\ register(form[1], form[2], form[3])

SpecRegister == InitRegister /\ [][NextRegister]_vars

\* ---------------------------------------------- properties of SpecRegister
Unique(rows) ==
    \A i, j \in DOMAIN rows :
        i # j => rows[i].username # rows[j].username /\ rows[i].email # rows[j].email
Taken(form) ==
    \E i \in DOMAIN users : users[i].username = form[1] \/ users[i].email = form[2]

\* C26: no two users ever share a username or an email: a registration that
\* reuses a username or an email is answered 409 and creates no user, and a
\* user that is created starts with current_streak = 0 and longest_streak = 0
C26_UniqueUsers ==
    [][/\ Unique(users')
       /\ \A form \in AllRegisterForms :
             register(form[1], form[2], form[3]) =>
                 /\ (form[3] >= 8 /\ Len(form[1]) >= 3 /\ form[2] # "nomail" /\ Taken(form)) =>
                        resp'.status = 409 /\ users' = users
                 /\ resp'.status = 201 =>
                        /\ Len(users') = Len(users) + 1
                        /\ SubSeq(users', 1, Len(users)) = users
                        /\ users'[Len(users')].username = form[1]
                        /\ users'[Len(users')].email = form[2]
                        /\ users'[Len(users')].current_streak = 0
                        /\ users'[Len(users')].longest_streak = 0
                 /\ resp'.status # 201 => users' = users]_vars
\* ann is registered, and a form with a new username and ann's email was
\* answered 409
C26_Witness ==
    /\ Len(users) = 1
    /\ users[1].username = "ann"
    /\ users[1].email = "ann@x.io"
    /\ resp = Response("register", 409, "Email already exists")

\* ============================================================ cache key
\* sorted(entry_ids): insertion into the sorted tail
RECURSIVE insert_sorted(_, _)
insert_sorted(x, seq) ==
    IF seq = << >> THEN <<x>>
    ELSE IF x <= Head(seq) THEN <<x>> \o seq
    ELSE <<Head(seq)>> \o insert_sorted(x, Tail(seq))
\* the list as it is given
unsorted(entry_ids) == entry_ids
RECURSIVE sorted(_)
sorted(entry_ids) ==
    IF entry_ids = << >> THEN << >>
    ELSE insert_sorted(Head(entry_ids), sorted(Tail(entry_ids)))

\* hash(tuple(...)) of CPython (3.8 and later, 64 bit) on the tuples of the
\* ids 1..3, as the decimal text the f-string formats it to
tuple_hash(ids) ==
    CASE ids = <<>> -> "5740354900026072187"
      [] ids = <<1>> -> "-6644214454873602895"
      [] ids = <<2>> -> "6909455589863252355"
      [] ids = <<3>> -> "-5029647727744300836"
      [] ids = <<1, 2>> -> "-3550055125485641917"
      [] ids = <<1, 3>> -> "-1440771752368011620"
      [] ids = <<2, 1>> -> "6794810172467074373"
      [] ids = <<2, 3>> -> "8409376899596376432"
      [] ids = <<3, 1>> -> "8756109708711196808"
      [] ids = <<3, 2>> -> "3863035679738500442"
      [] ids = <<1, 2, 3>> -> "529344067295497451"
      [] ids = <<1, 3, 2>> -> "1713578045245444163"
      [] ids = <<2, 1, 3>> -> "-5685243413837761780"
      [] ids = <<2, 3, 1>> -> "4511638047241446648"
      [] ids = <<3, 1, 2>> -> "-4267894587036932458"
      [] ids = <<3, 2, 1>> -> "-925386691174542831"

\* hashlib.md5(content.encode()).hexdigest() on the contents the inputs below
\* lead to
md5_hexdigest(content) ==
    CASE content = "1_7_25_5740354900026072187" -> "d1fd78bce4e2f52db24a845d6e0cf919"
      [] content = "1_7_25_-6644214454873602895" -> "33624c136792b1a7361d84cbd5618f54"
      [] content = "1_7_25_6909455589863252355" -> "cfca4302b4d6f058800cd141a206fe5d"
      [] content = "1_7_25_-5029647727744300836" -> "f1ebf1e61997bcdba122487f8dc72e8e"
      [] content = "1_7_25_-3550055125485641917" -> "86dae7825f07236d2585a547544fbe14"
      [] content = "1_7_25_-1440771752368011620" -> "87abeabf2220e8c15a4e8d3f0027af55"
      [] content = "1_7_25_6794810172467074373" -> "0543aad33b7fe6cc5d8c7cd40c3e360f"
      [] content = "1_7_25_8409376899596376432" -> "750112f4b1264bb5cba0dc3e8c675504"
      [] content = "1_7_25_8756109708711196808" -> "1019b2372f8e9094a74bb6e48d4d70d6"
      [] content = "1_7_25_3863035679738500442" -> "b572494dbe2e38cd79382cb1ab582aea"
      [] content = "1_7_25_529344067295497451" -> "697fb4e0362673d3dae0f06d5764866f"
      [] content = "1_7_25_1713578045245444163" -> "ae16a6e076d2faecbb715c6c942ceae8"
      [] content = "1_7_25_-5685243413837761780" -> "214e55a703526352b98ace8524eadc43"
      [] content = "1_7_25_4511638047241446648" -> "1f8dccd2dcde59b3860d1867372d0f66"
      [] content = "1_7_25_-4267894587036932458" -> "07ef8255553daf9bcefb2f18af8a2ee8"
      [] content = "1_7_25_-925386691174542831" -> "16a982c9fe8862312dd64f5b2213ca52"
      [] content = "1_7_50_5740354900026072187" -> "507182cde7d1291bcdc523acc3c22799"
      [] content = "1_7_50_-6644214454873602895" -> "9d0bb045b85121e21ef3dedaebf97e38"
      [] content = "1_7_50_6909455589863252355" -> "dc6dd4d8f5650cacd76199c428b47b2d"
      [] content = "1_7_50_-5029647727744300836" -> "e3cf1d965e213ba590579e47fafec008"
      [] content = "1_7_50_-3550055125485641917" -> "7718ca5ccb2e6dd8bd9eaf57a55fd90c"
      [] content = "1_7_50_-1440771752368011620" -> "fca57fc8057e671ecc9b77cc491f8663"
      [] content = "1_7_50_6794810172467074373" -> "def515026dbb56d36cd180277682e481"
      [] content = "1_7_50_8409376899596376432" -> "7bf7a1d0ac3f4f65a23a3b435606211a"
      [] content = "1_7_50_8756109708711196808" -> "5a1e3243eeef21d4764d92dc1bd231f8"
      [] content = "1_7_50_3863035679738500442" -> "5932a9c224a13a5889915735d549ea30"
      [] content = "1_7_50_529344067295497451" -> "5dc647c4f745ea3f29d2ed1ca83f92cb"
      [] content = "1_7_50_1713578045245444163" -> "cd17cadc99b83480f6d18d61e302d81b"
      [] content = "1_7_50_-5685243413837761780" -> "9e22cdd8d2c54ee3849ebbb9ab7f56fc"
      [] content = "1_7_50_4511638047241446648" -> "b40dd7222d2116b5eb4b632e65e08bab"
      [] content = "1_7_50_-4267894587036932458" -> "8f43b89c15624b0a4e1950e870fc1d27"
      [] content = "1_7_50_-925386691174542831" -> "5f797d3e68413d0fda86111c14d1b562"
      [] content = "1_30_25_5740354900026072187" -> "fbabc3bdde8feac8e0694d45be76660d"
      [] content = "1_30_25_-6644214454873602895" -> "a66c7c66af03f3115c35da819cd57ed0"
      [] content = "1_30_25_6909455589863252355" -> "5f4abbe64f551aa4b670b76eafc3bb4d"
      [] content = "1_30_25_-5029647727744300836" -> "dcfe80784496a1f4dd491e48e5a4eda4"
      [] content = "1_30_25_-3550055125485641917" -> "a3aaa1d2e640e7b702ee45d02abef1d1"
      [] content = "1_30_25_-1440771752368011620" -> "d917bc2b39e6e794a4ebd7da6e02e1c1"
      [] content = "1_30_25_6794810172467074373" -> "7f26b7e2d47ac353c1494038fbc23eab"
      [] content = "1_30_25_8409376899596376432" -> "dbe274dfb183661598123a6716bbd5a3"
      [] content = "1_30_25_8756109708711196808" -> "c3d010f23613c6572e7b050f13790feb"
      [] content = "1_30_25_3863035679738500442" -> "41c111bc5c5e2c363b194283d01f6bb5"
      [] content = "1_30_25_529344067295497451" -> "d23fc84a5f8b054929edf851a8508016"
      [] content = "1_30_25_1713578045245444163" -> "1b4dcd74e713869c879dfbc29501e3f8"
      [] content = "1_30_25_-5685243413837761780" -> "3497ff18dceed599a6486b8cdfb5ebed"
      [] content = "1_30_25_4511638047241446648" -> "623ba52a9e633d243d8ae39f2c8cbf40"
      [] content = "1_30_25_-4267894587036932458" -> "2f71f4fa966add044cbdd4de4eb491a1"
      [] content = "1_30_25_-925386691174542831" -> "5051f429773efbfa3d66b989ad8ef2a4"
      [] content = "1_30_50_5740354900026072187" -> "b94b66730d7f3c34f9b202ee23769b14"
      [] content = "1_30_50_-6644214454873602895" -> "8100a6bc4b04e832ba5b03a036686c17"
      [] content = "1_30_50_6909455589863252355" -> "5d27dd47f32d9d18277d680f0f2ccb10"
      [] content = "1_30_50_-5029647727744300836" -> "cba3d8285040507f75b8999960eda825"
      [] content = "1_30_50_-3550055125485641917" -> "fcb47182406200841823ba6d6156f986"
      [] content = "1_30_50_-1440771752368011620" -> "ba3bee853333c1931749660295370be4"
      [] content = "1_30_50_6794810172467074373" -> "6a853c386547c91c126ddd63d034ae3b"
      [] content = "1_30_50_8409376899596376432" -> "e72f90f1ae919fa8358b3e66fb733c1a"
      [] content = "1_30_50_8756109708711196808" -> "cfa2efe71c181d88c284c4d6298fdd2b"
      [] content = "1_30_50_3863035679738500442" -> "da842dace839aff8fd04f23ccf4f2d89"
      [] content = "1_30_50_529344067295497451" -> "8653be28ea7ab159e71b4f6fcc0ead0f"
      [] content = "1_30_50_1713578045245444163" -> "d92f4affe6fc155f546547d85ef5ca16"
      [] content = "1_30_50_-5685243413837761780" -> "a535e42a6e2ec8d4af4086892291ad1e"
      [] content = "1_30_50_4511638047241446648" -> "97d3760d1f9deb3df620afc7667f3508"
      [] content = "1_30_50_-4267894587036932458" -> "d61e5e250941ffb45e8166e5fcc920a5"
      [] content = "1_30_50_-925386691174542831" -> "86d3f3f9aec20e1058a69dfe55f1cfb7"
      [] content = "2_7_25_5740354900026072187" -> "b536201a06a22335c9bcf4d428974b2b"
      [] content = "2_7_25_-6644214454873602895" -> "4352ca3c6bd48a7e778662f0199d40c8"
      [] content = "2_7_25_6909455589863252355" -> "97f30cf31ae2c19845d2423aa8c20362"
      [] content = "2_7_25_-5029647727744300836" -> "0aa48b87daf90f2218ed6198091a549a"
      [] content = "2_7_25_-3550055125485641917" -> "ebd92206fd62e35f22d18b82ed193634"
      [] content = "2_7_25_-1440771752368011620" -> "311c6b79116e82089a399058132cdf81"
      [] content = "2_7_25_6794810172467074373" -> "5e49eebdd755d4c74cdffde76645581d"
      [] content = "2_7_25_8409376899596376432" -> "f5c040d441aa1f3fd6c08330d41e7948"
      [] content = "2_7_25_8756109708711196808" -> "f6f2c41dc0845b00460d12fd5200f657"
      [] content = "2_7_25_3863035679738500442" -> "42a8aeb6512a54490899db373129e0d0"
      [] content = "2_7_25_529344067295497451" -> "29583768a5ef73075197b6189d0a654b"
      [] content = "2_7_25_1713578045245444163" -> "848d3389c46bd9ee323f9654d94e2d8f"
      [] content = "2_7_25_-5685243413837761780" -> "134576275da936ef8b75fff1ef74105f"
      [] content = "2_7_25_4511638047241446648" -> "50ab604db1ba0af6024330d5fe2ec1a2"
      [] content = "2_7_25_-4267894587036932458" -> "c63c834acdbcbe5c676cf388adcaa858"
      [] content = "2_7_25_-925386691174542831" -> "3bbd5f16e7892de906d145dd499f8f69"
      [] content = "2_7_50_5740354900026072187" -> "34d10461656cbdbc8bf033cd887fa2cf"
      [] content = "2_7_50_-6644214454873602895" -> "f184783c0a8d0bf69447dda636f30a13"
      [] content = "2_7_50_6909455589863252355" -> "26c67a2ff2676975eed46ce9404fbe99"
      [] content = "2_7_50_-5029647727744300836" -> "91b50f2360182e15adf57e42e85ca06b"
      [] content = "2_7_50_-3550055125485641917" -> "0ac0659d718d036476a893cdff4c9bb2"
      [] content = "2_7_50_-1440771752368011620" -> "6c823d985b052661d48121dbf8787420"
      [] content = "2_7_50_6794810172467074373" -> "a080d6177c525e8e9136d56ef503c6d0"
      [] content = "2_7_50_8409376899596376432" -> "4470c3d0ca1f2bdf13bd70ba12156ea9"
      [] content = "2_7_50_8756109708711196808" -> "cd9153394b56e4744040c6f7b59ee5c0"
      [] content = "2_7_50_3863035679738500442" -> "44fd18385cb11b4b747e4871088ab19c"
      [] content = "2_7_50_529344067295497451" -> "e1938d6f850a84296adf3074f78f578e"
      [] content = "2_7_50_1713578045245444163" -> "f015843d2a094ba5173e063aa6efd453"
      [] content = "2_7_50_-5685243413837761780" -> "4b4e6962e1f278adcce8b2167479453f"
      [] content = "2_7_50_4511638047241446648" -> "56c7602d5b1eabc9bf0885f0f408d6b3"
      [] content = "2_7_50_-4267894587036932458" -> "4ebe63d6c205fcf9c44306e84f6faaa6"
      [] content = "2_7_50_-925386691174542831" -> "b865d652d89c2e068adea6d57d786500"
      [] content = "2_30_25_5740354900026072187" -> "5f47ee41bb003c73cad1968b308977b9"
      [] content = "2_30_25_-6644214454873602895" -> "3ee2012f3c741a5e049afdb83e0fd1b2"
      [] content = "2_30_25_6909455589863252355" -> "a900cd694e54a5aae3f69617487e28f8"
      [] content = "2_30_25_-5029647727744300836" -> "42079774089839944a8e8ddc8035177e"
      [] content = "2_30_25_-3550055125485641917" -> "9633678aa74aaedf8fba459f58472704"
      [] content = "2_30_25_-1440771752368011620" -> "d011c1506802b75b706b7bb78e26a807"
      [] content = "2_30_25_6794810172467074373" -> "52c3f1b20f5627a82dc17d36d8ebb9d3"
      [] content = "2_30_25_8409376899596376432" -> "5ccce0458dead62ffe9fe18050be7e93"
      [] content = "2_30_25_8756109708711196808" -> "456da15ab2f710cb564b21f7da16e1c7"
      [] content = "2_30_25_3863035679738500442" -> "b618703f139b076de2a6e213d215c998"
      [] content = "2_30_25_529344067295497451" -> "6cfb875ef8b1089d848f2d7a26e0386e"
      [] content = "2_30_25_1713578045245444163" -> "370ae6c35f4db59ceedfdd1fee710669"
      [] content = "2_30_25_-5685243413837761780" -> "c989f170a32cd276b62773ee3a671dc1"
      [] content = "2_30_25_4511638047241446648" -> "bdbb4cafab7654f97544d8517e0e869d"
      [] content = "2_30_25_-4267894587036932458" -> "d81f5acf482bdbbcd567952a1bdb274a"
      [] content = "2_30_25_-925386691174542831" -> "230fb01efc5bb21f659203e072c128bd"
      [] content = "2_30_50_5740354900026072187" -> "3e23328093e4c241368033cd0f219c6d"
      [] content = "2_30_50_-6644214454873602895" -> "827911b776f8fb6609bca7f0bcb09117"
      [] content = "2_30_50_6909455589863252355" -> "73535dd4f296a90c1e90c4095f056582"
      [] content = "2_30_50_-5029647727744300836" -> "df48317cf1bf87815cef93e82ffc9702"
      [] content = "2_30_50_-3550055125485641917" -> "0c837c670613a32291f5035002901ae1"
      [] content = "2_30_50_-1440771752368011620" -> "83a098e7834078e8f817217c340cb4a9"
      [] content = "2_30_50_6794810172467074373" -> "8e052997750a818bedf77d1962454735"
      [] content = "2_30_50_8409376899596376432" -> "00b9dedd7d5a9a6c702ff4f6a4ef22ef"
      [] content = "2_30_50_8756109708711196808" -> "678817f124be9968fc6b58a1cf841dbd"
      [] content = "2_30_50_3863035679738500442" -> "5da4f429bc90b607e822b5c2e80490b1"
      [] content = "2_30_50_529344067295497451" -> "e43544e55d9c478798ca82557d371dc5"
      [] content = "2_30_50_1713578045245444163" -> "b415cfac51c3e0792e9743eb4ca2fea5"
      [] content = "2_30_50_-5685243413837761780" -> "a66f2cd82705a90df031a52915b28999"
      [] content = "2_30_50_4511638047241446648" -> "3d44bcf2e7301276fb2b04d4ec14c146"
      [] content = "2_30_50_-4267894587036932458" -> "c9cef1047cad63d6f39b85e2fa34d07a"
      [] content = "2_30_50_-925386691174542831" -> "7ec37620ed045ce0ccf2c61f07498305"

\* analytics.generate_cache_key, lines 203-207
generate_cache_key(user_id, days, max_entries, entry_ids) ==
    LET content == ToString(user_id) \o "_" \o ToString(days) \o "_"
                       \o ToString(max_entries) \o "_" \o tuple_hash(sorted(entry_ids))
    IN "analytics_" \o md5_hexdigest(content)

\* ------------------------------------------------------ the key alone
\* the lists of distinct ids over a set of ids
RECURSIVE IdLists(_)
IdLists(ids) ==
    {<< >>} \cup UNION {{<<i>> \o rest : rest \in IdLists(ids \ {i})} : i \in ids}
CacheKeyInputs ==
    [user_id : {1, 2}, days : {7, 30}, max_entries : {25, 50}, entry_ids : IdLists({1, 2, 3})]
key_of(input) ==
    generate_cache_key(input.user_id, input.days, input.max_entries, input.entry_ids)

InitCacheKey ==
    /\ AtRest
    /\ fn_pc = "key"
    /\ fn_in \in CacheKeyInputs
    /\ fn_out = ""
    /\ requests = << >>

\* generate_cache_key(user_id, days, max_entries, entry_ids) is called
generate_cache_key_call ==
    /\ fn_pc = "key"
    /\ fn_pc' = "generate_cache_key"
    /\ fn_out' = key_of(fn_in)
    /\ UNCHANGED <<fn_in, resp, requests>>
    /\ UNCHANGED <<store_vars, ai_vars, chat_vars>>

NextCacheKey == generate_cache_key_call
SpecCacheKey == InitCacheKey /\ [][NextCacheKey]_vars

\* -------------------------------------------- properties of SpecCacheKey
Range(seq) == {seq[i] : i \in DOMAIN seq}
SameInput(a, b) ==
    /\ a.user_id = b.user_id
    /\ a.days = b.days
    /\ a.max_entries = b.max_entries
    /\ Range(a.entry_ids) = Range(b.entry_ids)

\* C23: the key is a function of user_id, days, max_entries and the set of
\* entry ids: every other call with the same scalars and the same ids in any
\* order gives the same key, and every call that differs in a scalar or in
\* the set of ids gives a different key
C23_KeyDeterminedByIdSet ==
    fn_pc = "generate_cache_key" =>
        \A other \in CacheKeyInputs : SameInput(other, fn_in) <=> key_of(other) = fn_out
\* the ids were given as 3, 1, 2: the key is the key of 1, 2, 3, and it is
\* not the key of the ids 1, 2 nor the key of another user
C23_Witness ==
    /\ fn_pc = "generate_cache_key"
    /\ fn_in.entry_ids = <<3, 1, 2>>
    /\ fn_out = key_of([fn_in EXCEPT !.entry_ids = <<1, 2, 3>>])
    /\ fn_out # key_of([fn_in EXCEPT !.entry_ids = <<1, 2>>])
    /\ fn_out # key_of([fn_in EXCEPT !.user_id = 3 - fn_in.user_id])

\* ============================================ sessions of two users
\* A store the requests can leave behind: ann and bob are registered, each
\* wrote one entry and had one exchange with the assistant, ann deleted an
\* older conversation of hers, and nobody is logged in.
InitSession ==
    /\ today = MaxDay - 1
    /\ users = <<[NewUser("ann", "ann@x.io", 0) EXCEPT
                     !.current_streak = 1, !.longest_streak = 1,
                     !.last_activity_date = MaxDay - 2],
                 [NewUser("bob", "bob@x.io", 0) EXCEPT
                     !.current_streak = 1, !.longest_streak = 1,
                     !.last_activity_date = MaxDay - 2]>>
    /\ hist_max = <<1, 1>>
    /\ journal = <<NewJournal(1, "p1", "a1", "text", MaxDay - 2),
                   NewJournal(2, "p2", "a1", "text", MaxDay - 2)>>
    /\ current_user = Anonymous
    /\ conversation =
          <<[NewConversation(2) EXCEPT
                !.chat = set_chat_data(PyList(<<Turn("user", <<"hi">>),
                                                Turn("model", <<"Hello.">>)>>))],
            [NewConversation(1) EXCEPT
                !.chat = set_chat_data(PyList(<<Turn("user", <<"more">>),
                                                Turn("model", <<"Hello.">>)>>))],
            [NewConversation(1) EXCEPT
                !.chat = set_chat_data(PyList(<<Turn("user", <<"hi">>),
                                                Turn("model", <<"Hello.">>)>>)),
                !.deleted_at = MaxDay - 2]>>
    /\ sent = << >>
    /\ resp = Response("none", 0, "")
    /\ AIIdle
    /\ FnIdle

\* the requests tried: each handler, on each row; the update sets the prompt
\* ann's entry has, which bob's entry has not; the create requests are a form
\* without prompt and a form the service accepts
SessionLogins == {"ann", "bob", "eve"}
SessionUpdate == UpdateRequest("p1", "-", "-")
SessionCreate ==
    {CreateRequest("", "text", "a1", "absent", "text", FALSE),
     CreateRequest("p1", "text", "a1", "absent", "text", FALSE)}
SessionPosts ==
    {PostRequest(MessageData("hi", id), ReadySetup, <<Hello, Hello, Hello>>, FALSE) :
        id \in {<< >>, <<1>>, <<2>>, <<3>>}}
NoKeySetup == [api_key |-> FALSE, client_ok |-> TRUE, error |-> PlainError]

NextSession ==
    \/ \E identifier \in SessionLogins, password_ok \in BOOLEAN : login(identifier, password_ok)
    \/ logout
    \/ \E req \in SessionCreate : create_entry(req)
    \/ \E entry_id \in 1..2 : update_entry(entry_id, SessionUpdate)
    \/ \E entry_id \in 1..2 : delete_entry(entry_id)
    \/ get_all_entries(0, 0)
    \/ get_entries_by_tag("t", {1, 2}, 0, 0)
    \/ \E entry_id \in 1..2 : get_single_entry(entry_id)
    \/ get_mood_trends(30)
    \/ get_analytics_summary
    \/ analyze_entries_begin(30, 25, NoKeySetup)
    \/ \E request \in SessionPosts :
          \* the three conversations of InitSession hold MaxMessages exchanges
          /\ stored_turns(conversation) + 2 <= 2 * (MaxMessages + 1)
          /\ post_message(request.data, request.setup, request.outcomes, request.db_error)
    \/ get_conversations(0, 0)
    \/ \E id \in 1..3 : get_single_conversation_history(id)
    \/ \E id \in 1..3 : delete_conversation(id)

SpecSession == InitSession /\ [][NextSession]_vars

\* ----------------------------------------------- properties of SpecSession
ProtectedOps ==
    {"create_entry", "update_entry", "delete_entry", "get_all_entries",
     "get_entries_by_tag", "get_single_entry", "get_mood_trends",
     "get_analytics_summary", "analyze_entries", "post_message", "get_conversations",
     "get_single_conversation_history", "delete_conversation", "logout"}
\* the user the identifier names, by username
Named(identifier) == {i \in DOMAIN users : users[i].username = identifier}
\* the rows of the caller
OwnEntries == {i \in DOMAIN journal : journal[i].user_id = current_user}
OwnConversations == {i \in DOMAIN conversation : conversation[i].user_id = current_user}

\* C21: owner isolation.  A request changes and creates rows of its caller
\* only; what the caller's reads list (entries, entries by tag, mood trends,
\* summary, conversations), count (analysis) and hand to the chat model
\* (journal context) is taken from the caller's own rows; and get, update and
\* delete of another user's entry, and post_message, history and delete on
\* another user's conversation, answer 404 and change nothing
C21_OwnerIsolation ==
    [][/\ \A i \in DOMAIN journal :
             /\ i \in DOMAIN journal'
             /\ journal'[i] # journal[i] => i \in OwnEntries
       /\ \A i \in DOMAIN conversation :
             /\ i \in DOMAIN conversation'
             /\ conversation'[i] # conversation[i] => i \in OwnConversations
       /\ \A i \in DOMAIN conversation' \ DOMAIN conversation :
             conversation'[i].user_id = current_user
       /\ resp'.op \in {"get_all_entries", "get_entries_by_tag", "get_mood_trends",
                        "get_analytics_summary"} =>
             /\ \A k \in DOMAIN resp'.rows : resp'.rows[k] \in OwnEntries
             /\ resp'.count <= Cardinality(OwnEntries)
       /\ resp'.op = "get_conversations" =>
             \A k \in DOMAIN resp'.rows : resp'.rows[k] \in OwnConversations
       /\ (resp'.op = "analyze_entries" /\ resp'.status = 200) =>
             resp'.entries_analyzed = Cardinality(QualifyingEntries(30))
       /\ (resp'.op = "post_message" /\ Len(sent') > 0 /\ Len(TurnParts(Last(sent'))) > 1) =>
             TurnParts(Last(sent'))[1] \in {PrimerOf(ids) : ids \in SUBSET LiveEntries}
       /\ \A id \in DOMAIN journal \ OwnEntries :
             is_authenticated =>
                /\ get_single_entry(id) => resp'.status = 404
                /\ update_entry(id, SessionUpdate) => resp'.status = 404 /\ journal' = journal
                /\ delete_entry(id) => resp'.status = 404 /\ journal' = journal
       /\ \A id \in DOMAIN conversation \ OwnConversations :
             (/\ is_authenticated
              /\ resp'.op \in {"post_message", "get_single_conversation_history",
                               "delete_conversation"}
              /\ resp'.id = id) =>
                /\ resp'.status = 404
                /\ conversation' = conversation
                /\ sent' = << >>]_vars
\* bob has deleted his entry and his conversation; ann, logged in, asked to
\* delete bob's conversation and was answered 404
C21_Witness ==
    /\ current_user = 1
    /\ journal[2].deleted_at # NoDate
    /\ journal[1].deleted_at = NoDate
    /\ conversation[1].deleted_at # NoDate
    /\ resp.op = "delete_conversation"
    /\ resp.id = 1
    /\ resp.status = 404

\* C22: deleting a conversation is idempotent.  A delete request of its
\* owner on a conversation that is already soft-deleted is answered 200 and
\* leaves every conversation as it was: deleted_at keeps the time of the first
\* delete, and the stored turns stay
C22_DeleteConversationIdempotent ==
    [][\A id \in OwnConversations :
          (/\ is_authenticated
           /\ conversation[id].deleted_at # NoDate
           /\ delete_conversation(id)) =>
              /\ resp'.status = 200
              /\ conversation' = conversation]_vars
\* ann deleted a conversation on an earlier day and asked again today: the
\* answer is 200, deleted_at is the earlier day and the two turns are stored
C22_Witness ==
    /\ current_user = 1
    /\ resp.op = "delete_conversation"
    /\ resp.status = 200
    /\ resp.error = "Conversation was already deleted"
    /\ resp.id = 3
    /\ conversation[3].deleted_at = today - 1
    /\ Len(stored(conversation[3])) = 2

\* C25: the protected handlers (journal, analytics, chat, logout) serve only
\* a session that logged in with valid credentials and has not logged out.
\* A login with a wrong password or an unknown name leaves the session as it
\* was, a logout ends it, and a request without a session -- before any
\* login, after a failed login, after a logout, a second logout included -- is
\* answered 302 or 401, changes no row and hands nothing to the AI service
C25_ProtectedNeedSession ==
    [][/\ \A identifier \in SessionLogins, password_ok \in BOOLEAN :
             login(identifier, password_ok) =>
                IF password_ok /\ Named(identifier) # {}
                THEN current_user' \in Named(identifier) /\ resp'.status = 200
                ELSE current_user' = current_user /\ resp'.status = 401
       /\ logout => current_user' = Anonymous
       /\ (current_user = Anonymous /\ resp'.op \in ProtectedOps) =>
             /\ resp'.status \in {302, 401}
             /\ UNCHANGED <<today, users, journal, current_user, hist_max>>
             /\ UNCHANGED <<ai_vars, conversation>>
             /\ sent' \in {sent, << >>}
       /\ (resp'.op \in ProtectedOps /\ resp'.status \notin {302, 401}) =>
             current_user # Anonymous]_vars
\* ann logged in, deleted her entry and logged out; the second logout was
\* answered 401
C25_Witness ==
    /\ current_user = Anonymous
    /\ journal[1].deleted_at # NoDate
    /\ resp = Response("logout", 401, "Authentication required")


\* C37: update_entry, delete_entry, the reads, the chat operations and the
\* analytics operations leave current_streak, longest_streak and
\* last_activity_date of every user as they were; a step that changes one of
\* them is a create_entry answered 201; and a soft delete lowers no streak
StreakFields(u) ==
    <<users[u].current_streak, users[u].longest_streak, users[u].last_activity_date>>
C37_OnlyCreateChangesStreak ==
    [][/\ (\E u \in DOMAIN users : StreakFields(u)' # StreakFields(u)) =>
             resp'.op = "create_entry" /\ resp'.status = 201
       /\ resp'.op \in ProtectedOps \ {"create_entry", "logout"} =>
             \A u \in DOMAIN users : StreakFields(u)' = StreakFields(u)
       /\ \A entry_id \in 1..2 :
             delete_entry(entry_id) =>
                \A u \in DOMAIN users :
                   /\ users'[u].current_streak >= users[u].current_streak
                   /\ users'[u].longest_streak >= users[u].longest_streak]_vars
\* ann's streak went to 2 with the entry she created today, and then she
\* soft-deleted her entry of the day before
C37_Witness ==
    /\ current_user = 1
    /\ resp = Response("delete_entry", 200, "")
    /\ Len(journal) = 3 /\ journal[3].user_id = 1 /\ journal[3].deleted_at = NoDate
    /\ journal[1].deleted_at # NoDate
    /\ users[1].current_streak = 2 /\ users[1].longest_streak = 2
    /\ users[1].last_activity_date = today


\* ================================== two requests served side by side
\* Each request is served by its own worker with its own ORM session: a query
\* loads the rows as they are committed at that moment, assignments stay in the
\* session, and commit writes the columns the session assigned.  The handlers
\* take no lock and the tables carry no version column or uniqueness
\* constraint on (user, day), so the steps of two requests interleave freely.
MaxRequests == 2

\* a request of ann in flight: the message and conversation it names, where
\* its handler stands, the user row and the chat history its session holds,
\* and what it answered
InFlight(op, message) ==
    [op |-> op, message |-> message, conversation_id |-> 1, pc |-> "received",
     user |-> NewUser("", "", NoDate), chat_history |-> PyList(<< >>),
     status |-> 0, text |-> ""]
RaceRequests ==
    {InFlight("create_entry", "")} \cup {InFlight("post_message", m) : m \in {"hi", "more"}}
RaceForm == CreateRequest("p1", "text", "a1", "absent", "text", FALSE)
\* the exchange ann has had with the assistant
RaceHistory == <<Turn("user", <<"hi">>), Turn("model", <<"Hello.">>)>>

\* ann is logged in; her streak is 1 from an entry of yesterday or of the day
\* before, and she has had one exchange with the assistant
InitRace ==
    /\ today = MaxDay - 1
    /\ \E last \in {MaxDay - 2, MaxDay - 3} :
          /\ users = <<[NewUser("ann", "ann@x.io", 0) EXCEPT
                           !.current_streak = 1, !.longest_streak = 1,
                           !.last_activity_date = last]>>
          /\ journal = <<NewJournal(1, "p1", "a1", "text", last)>>
    /\ hist_max = <<1>>
    /\ current_user = 1
    /\ conversation =
          <<[NewConversation(1) EXCEPT !.chat = set_chat_data(PyList(RaceHistory))]>>
    /\ sent = << >>
    /\ resp = Response("none", 0, "")
    /\ AIIdle
    /\ fn_pc = "idle"
    /\ fn_in = << >>
    /\ fn_out = << >>
    /\ requests \in [1..MaxRequests -> RaceRequests]

\* journal.create_entry, lines 119-124: now is taken and update_user_streak
\* runs its query and assigns the streak to the user row of this session
create_entry_streak_check(r) ==
    LET now == today
        streak == update_user_streak(users[current_user],
                                     today_entries(journal, current_user, now), now)
        rejected == create_entry_rejected(streak)
    IN /\ requests[r].op = "create_entry"
       /\ requests[r].pc = "received"
       /\ requests' = [requests EXCEPT
                          ![r].pc = IF rejected THEN "done" ELSE "checked",
                          ![r].user = streak.user,
                          ![r].status = IF rejected THEN 400 ELSE 0]
       /\ resp' = IF rejected
                  THEN [Response("create_entry", 400, DuplicateEntry) EXCEPT !.valid = TRUE]
                  ELSE resp
       /\ UNCHANGED <<store_vars, ai_vars, chat_vars, fn_pc, fn_in, fn_out>>

\* journal.create_entry, lines 126-217: the form is valid, the entry is added
\* and the commit writes the new row and the streak columns this session
\* assigned
create_entry_commit(r) ==
    LET result == create_entry_result(RaceForm)
    IN /\ requests[r].op = "create_entry"
       /\ requests[r].pc = "checked"
       /\ create_entry_commits(result.status)
       /\ users' = [users EXCEPT ![current_user] = requests[r].user]
       /\ journal' = Append(journal, NewJournal(current_user, RaceForm.prompt, result.answer,
                                                RaceForm.modality, today))
       /\ hist_max' = hist_after(users')
       /\ requests' = [requests EXCEPT ![r].pc = "done", ![r].status = result.status]
       /\ resp' = [Response("create_entry", result.status, result.error) EXCEPT !.valid = TRUE]
       /\ UNCHANGED <<today, current_user, ai_vars, chat_vars, fn_pc, fn_in, fn_out>>

\* chat.post_message, lines 335-345: the conversation is queried and its
\* stored turns are decoded into chat_history
post_message_load(r) ==
    LET id == requests[r].conversation_id
        data == MessageData(requests[r].message, <<id>>)
    IN /\ requests[r].op = "post_message"
       /\ requests[r].pc = "received"
       /\ validate_message_input(data).error = ""
       /\ find_conversation(id, current_user)
       /\ requests' = [requests EXCEPT
                          ![r].pc = "loaded",
                          ![r].chat_history = get_chat_data(conversation[id].chat)]
       /\ UNCHANGED <<store_vars, ai_vars, chat_vars, resp, fn_pc, fn_in, fn_out>>

\* chat.post_message, lines 358-391: the model is called with the history this
\* request loaded, the two turns are appended to it, and set_chat_data and
\* the commit write the whole list to the column
post_message_save(r, outcomes) ==
    LET id == requests[r].conversation_id
        chat_history == requests[r].chat_history
        message == requests[r].message
        ai_response_text == call_gemini_api(outcomes)
    IN /\ requests[r].op = "post_message"
       /\ requests[r].pc = "loaded"
       /\ sent' = Append(chat_history.value,
                         Turn("user", current_message_parts(FALSE, message)))
       /\ conversation' =
             [conversation EXCEPT ![id].chat =
                 set_chat_data(PyList(chat_history_after(chat_history.value, message,
                                                         ai_response_text)))]
       /\ requests' = [requests EXCEPT ![r].pc = "done", ![r].status = 200,
                                       ![r].text = ai_response_text]
       /\ resp' = PostReply(200, "", id, FALSE, message, ai_response_text)
       /\ UNCHANGED <<store_vars, ai_vars, fn_pc, fn_in, fn_out>>

NextRace ==
    \/ \E r \in DOMAIN requests : create_entry_streak_check(r)
    \/ \E r \in DOMAIN requests : create_entry_commit(r)
    \/ \E r \in DOMAIN requests : post_message_load(r)
    \/ \E r \in DOMAIN requests, outcomes \in ChatRuns : post_message_save(r, outcomes)

SpecRace == InitRace /\ [][NextRace]_vars

\* ------------------------------------------------- properties of SpecRace
\* the requests of a handler that have been answered
Answered(op) == {r \in DOMAIN requests : requests[r].op = op /\ requests[r].pc = "done"}

\* C34: of the create_entry requests ann sends on one day, served side by
\* side, at most one stores an entry, and current_streak ends at most one above
\* the value it had before them
C34_OneEntryFromInterleavedCreates ==
    /\ Cardinality({r \in Answered("create_entry") : requests[r].status = 201}) <= 1
    /\ today_entries(journal, current_user, today) <= 1
    /\ users[current_user].current_streak <= 2

\* C35: the turns stored after post_message requests on one conversation,
\* served side by side, are the turns stored before them and the user and
\* model turn of every answered request: no turn is lost
C35_NoTurnLost ==
    \A id \in DOMAIN conversation :
        LET turns == stored(conversation[id])
            answered == {r \in Answered("post_message") : requests[r].conversation_id = id}
        IN /\ Len(turns) = Len(RaceHistory) + 2 * Cardinality(answered)
           /\ \A r \in answered :
                 \E k \in 1..(Len(turns) - 1) :
                    /\ turns[k] = Turn("user", <<requests[r].message>>)
                    /\ turns[k + 1] = Turn("model", <<requests[r].text>>)

====
